---- MODULE Spec2Model ----
(***************************************************************************)
(* State-machine model of the retrieval-augmented indexing subsystem:      *)
(* chunkers (chunkers/base.ts), the embedding generator (embeddings.ts),   *)
(* the vector store (db.ts) and the file processor (processor.ts).         *)
(*                                                                         *)
(* Text is a sequence of one-character strings over Alphabet.  Every       *)
(* `await` of the source is a point where another asynchronous task may    *)
(* run, so every provider call, retry timer and database statement is one  *)
(* action.  The database is the single connection the VectorStore holds:   *)
(* one transaction state shared by every caller of the store.              *)
(***************************************************************************)
EXTENDS Integers, Sequences, FiniteSets, TLC

VARIABLES
    initialized,   \* VectorStore.initialized
    chunks,        \* table chunks: set of rows [rowid, id, content, metadata, embedding]
    chunks_fts,    \* full-text index chunks_fts: set of postings [rowid, content]
    inTxn,         \* the connection has an open transaction
    txnSnap,       \* table contents when the open transaction began
    txnOwner,      \* history: the call whose BEGIN opened the transaction (0: none)
    hist,          \* history: what the statements executed so far have done to
                   \* transactions of other calls
    config,        \* ProcessorConfig of the FileProcessor / EmbeddingConfig
    clock,         \* Date.now(), in milliseconds
    proc,          \* the asynchronous calls in flight or finished, in call order
    pfResult,      \* results of the processFiles calls that have returned
    evalCall       \* a call of a function that touches none of the above:
                   \* [fn, args, returned, result]

vars == <<initialized, chunks, chunks_fts, inTxn, txnSnap, txnOwner, hist,
          config, clock, proc, pfResult, evalCall>>

----------------------------------------------------------------------------
(* Bounds of the model *)

\* number of paths one processFiles call is given
MaxFiles == 3
\* number of retries the configuration may allow
MaxRetriesBound == 2
\* number of chunks handed to one direct embedChunks or saveChunks call
MaxBatch == 2
\* direct saveChunks calls are issued while the next rowid of chunks is at most this
MaxRowid == 3
\* number of clock ticks
MaxClock == 1
\* number of processFile runs of the re-processing scenario
MaxRuns == 2
\* number of paths, repeated or not, in the list of the path-list scenario
MaxListLen == 2
\* number of lines of a text handed to a chunker directly
MaxLines == 3
\* largest overlap a chunker is configured with
MaxOverlap == 2
\* top-level items of a program given to the code chunker
MaxItems == 3
\* largest limit of a vector search
MaxLimit == 3
\* results the store's search hands to the vector-query tool
MaxResults == 2
\* direct operations on one store
MaxOps == 3
\* chunks handed to createBatches, and iterations of its loop that are followed
MaxChunks == 4
MaxIterations == 6

----------------------------------------------------------------------------
(* Text *)

NL == "\n"
Alphabet == {"a", ".", " ", NL}

\* /[a-zA-Z0-9]/
Letters == {"a", "i", "f", "e", "s", "x", "y", "z"}
IsAlnum(ch) == ch \in Letters
\* /\s/
IsSpace(ch) == ch \in {" ", NL}

Max(a, b) == IF a >= b THEN a ELSE b
Min(a, b) == IF a <= b THEN a ELSE b

RECURSIVE SumSeq(_)
SumSeq(s) == IF s = <<>> THEN 0 ELSE Head(s) + SumSeq(Tail(s))

\* text.slice(from, to) with 0-based from (inclusive) and to (exclusive)
Slice(text, from, to) == SubSeq(text, from + 1, to)

\* parts.join(sep)
RECURSIVE Join(_, _)
Join(parts, sep) ==
    IF parts = <<>> THEN <<>>
    ELSE IF Len(parts) = 1 THEN parts[1]
    ELSE parts[1] \o sep \o Join(Tail(parts), sep)

\* content.trim() is the empty string
TrimIsEmpty(text) == \A i \in 1..Len(text) : IsSpace(text[i])

\* BaseChunker.estimateTokenCount
estimateTokenCount(text) ==
    LET alphanumeric == Cardinality({i \in 1..Len(text) : IsAlnum(text[i])})
        others == Len(text) - alphanumeric
    IN  alphanumeric + others * 2

\* text.split('\n')
RECURSIVE SplitFrom(_, _, _)
SplitFrom(text, start, i) ==
    IF i > Len(text) THEN <<SubSeq(text, start, Len(text))>>
    ELSE IF text[i] = NL
         THEN <<SubSeq(text, start, i - 1)>> \o SplitFrom(text, i + 1, i + 1)
         ELSE SplitFrom(text, start, i + 1)
SplitLines(text) == SplitFrom(text, 1, 1)

\* the end of the match of /\n\s*\n/ that starts at i (0 when none starts there):
\* \s* is greedy, so the match ends at the last newline of the whitespace run
ParaSepEnd(text, i) ==
    IF text[i] # NL THEN 0
    ELSE LET ends == {j \in (i + 1)..Len(text) :
                         /\ text[j] = NL
                         /\ \A k \in (i + 1)..(j - 1) : IsSpace(text[k])}
         IN  IF ends = {} THEN 0 ELSE CHOOSE j \in ends : \A k \in ends : k <= j

\* text.split(/\n\s*\n/)
RECURSIVE SplitParaFrom(_, _, _)
SplitParaFrom(text, start, i) ==
    IF i > Len(text) THEN <<SubSeq(text, start, Len(text))>>
    ELSE LET e == ParaSepEnd(text, i)
         IN  IF e > 0
             THEN <<SubSeq(text, start, i - 1)>> \o SplitParaFrom(text, e + 1, e + 1)
             ELSE SplitParaFrom(text, start, i + 1)
SplitParagraphs(text) == SplitParaFrom(text, 1, 1)

----------------------------------------------------------------------------
(* Chunkers *)

\* BaseChunker.createMetadata (additionalMetadata is undefined for the text
\* chunkers and JSON.stringify leaves an undefined field out)
createMetadata(filePath, fileType, startPosition, endPosition, tokenCount, now) ==
    [filePath |-> filePath, fileType |-> fileType,
     startPosition |-> startPosition, endPosition |-> endPosition,
     tokenCount |-> tokenCount, createdAt |-> now]

\* LineChunker.chunk: the loop over lines[i], i 0-based; st is
\* [chunks, currentChunk, currentTokens, startLine]
RECURSIVE LineLoopFlushOnMeet(_, _, _, _, _, _)
LineLoopFlushOnMeet(lines, i, st, maxTokens, overlap, ctx) ==
    IF i >= Len(lines) THEN st
    ELSE
      LET line == lines[i + 1]
          lineTokens == estimateTokenCount(line)
          mk(s, e, t) == createMetadata(ctx.filePath, ctx.fileType, s, e, t, ctx.now)
          flush == /\ st.currentTokens + lineTokens >= maxTokens
                   /\ Len(st.currentChunk) > 0
          overlapLines == Min(overlap, Len(st.currentChunk))
          kept == IF overlapLines = 0 THEN st.currentChunk
                  ELSE IF overlapLines < 0
                  THEN SubSeq(st.currentChunk, 1 - overlapLines, Len(st.currentChunk))
                  ELSE SubSeq(st.currentChunk,
                              Len(st.currentChunk) - overlapLines + 1,
                              Len(st.currentChunk))
          s1 == IF flush
                THEN [chunks |-> Append(st.chunks,
                                   [content |-> Join(st.currentChunk, <<NL>>),
                                    metadata |-> mk(st.startLine, i - 1, st.currentTokens)]),
                      currentChunk |-> kept,
                      startLine |-> i - overlapLines,
                      currentTokens |-> SumSeq([k \in 1..Len(kept) |->
                                                   estimateTokenCount(kept[k])])]
                ELSE st
          s2 == [s1 EXCEPT !.currentChunk = Append(s1.currentChunk, line),
                           !.currentTokens = s1.currentTokens + lineTokens]
      IN  LineLoopFlushOnMeet(lines, i + 1, s2, maxTokens, overlap, ctx)
RECURSIVE LineLoop(_, _, _, _, _, _)
LineLoop(lines, i, st, maxTokens, overlap, ctx) ==
    IF i >= Len(lines) THEN st
    ELSE
      LET line == lines[i + 1]
          lineTokens == estimateTokenCount(line)
          mk(s, e, t) == createMetadata(ctx.filePath, ctx.fileType, s, e, t, ctx.now)
          flush == /\ st.currentTokens + lineTokens > maxTokens
                   /\ Len(st.currentChunk) > 0
          overlapLines == Min(overlap, Len(st.currentChunk))
          \* currentChunk.slice(-overlapLines): slice(-0) is slice(0), the whole array,
          \* and for a negative overlap slice(m) drops the first m lines
          kept == IF overlapLines = 0 THEN st.currentChunk
                  ELSE IF overlapLines < 0
                  THEN SubSeq(st.currentChunk, 1 - overlapLines, Len(st.currentChunk))
                  ELSE SubSeq(st.currentChunk,
                              Len(st.currentChunk) - overlapLines + 1,
                              Len(st.currentChunk))
          s1 == IF flush
                THEN [chunks |-> Append(st.chunks,
                                   [content |-> Join(st.currentChunk, <<NL>>),
                                    metadata |-> mk(st.startLine, i - 1, st.currentTokens)]),
                      currentChunk |-> kept,
                      startLine |-> i - overlapLines,
                      currentTokens |-> SumSeq([k \in 1..Len(kept) |->
                                                   estimateTokenCount(kept[k])])]
                ELSE st
          s2 == [s1 EXCEPT !.currentChunk = Append(s1.currentChunk, line),
                           !.currentTokens = s1.currentTokens + lineTokens]
      IN  LineLoop(lines, i + 1, s2, maxTokens, overlap, ctx)

LineChunker_chunk(text, filePath, fileType, cfg, now) ==
    LET lines == SplitLines(text)
        mk(s, e, t) == createMetadata(filePath, fileType, s, e, t, now)
        \* this.config.maxTokens || 1000 ; this.config.overlap || 0
        maxTokens == IF cfg.maxTokens = 0 THEN 1000 ELSE cfg.maxTokens
        st == LineLoop(lines, 0,
                       [chunks |-> <<>>, currentChunk |-> <<>>,
                        currentTokens |-> 0, startLine |-> 0],
                       maxTokens, cfg.overlap,
                       [filePath |-> filePath, fileType |-> fileType, now |-> now])
    IN  IF Len(st.currentChunk) > 0
        THEN Append(st.chunks,
                    [content |-> Join(st.currentChunk, <<NL>>),
                     metadata |-> mk(st.startLine, Len(lines) - 1, st.currentTokens)])
        ELSE st.chunks

\* ParagraphChunker.chunk: the loop over paragraphs; st is
\* [chunks, currentChunk, currentTokens, startPosition, currentPosition]
RECURSIVE ParaLoopReseeding(_, _, _, _, _)
ParaLoopReseeding(paragraphs, k, st, maxTokens, ctx) ==
    IF k > Len(paragraphs) THEN st
    ELSE
      LET paragraph == paragraphs[k]
          paragraphTokens == estimateTokenCount(paragraph)
          mk(s, e, t) == createMetadata(ctx.filePath, ctx.fileType, s, e, t, ctx.now)
          currentPosition == st.currentPosition + Len(paragraph) + 2
          flush == /\ st.currentTokens + paragraphTokens > maxTokens
                   /\ Len(st.currentChunk) > 0
          last == st.currentChunk[Len(st.currentChunk)]
          s1 == IF flush
                THEN [chunks |-> Append(st.chunks,
                                   [content |-> Join(st.currentChunk, <<NL, NL>>),
                                    metadata |-> mk(st.startPosition, currentPosition - 2,
                                                    st.currentTokens)]),
                      currentChunk |-> <<last>>,
                      startPosition |-> currentPosition - Len(paragraph) - 2,
                      currentTokens |-> estimateTokenCount(last),
                      currentPosition |-> currentPosition]
                ELSE [st EXCEPT !.currentPosition = currentPosition]
          s2 == [s1 EXCEPT !.currentChunk = Append(s1.currentChunk, paragraph),
                           !.currentTokens = s1.currentTokens + paragraphTokens]
      IN  ParaLoopReseeding(paragraphs, k + 1, s2, maxTokens, ctx)

RECURSIVE ParaLoop(_, _, _, _, _)
ParaLoop(paragraphs, k, st, maxTokens, ctx) ==
    IF k > Len(paragraphs) THEN st
    ELSE
      LET paragraph == paragraphs[k]
          paragraphTokens == estimateTokenCount(paragraph)
          mk(s, e, t) == createMetadata(ctx.filePath, ctx.fileType, s, e, t, ctx.now)
          currentPosition == st.currentPosition + Len(paragraph) + 2
          flush == /\ st.currentTokens + paragraphTokens > maxTokens
                   /\ Len(st.currentChunk) > 0
          s1 == IF flush
                THEN [chunks |-> Append(st.chunks,
                                   [content |-> Join(st.currentChunk, <<NL, NL>>),
                                    metadata |-> mk(st.startPosition, currentPosition - 2,
                                                    st.currentTokens)]),
                      currentChunk |-> <<>>,
                      startPosition |-> currentPosition - Len(paragraph) - 2,
                      currentTokens |-> 0,
                      currentPosition |-> currentPosition]
                ELSE [st EXCEPT !.currentPosition = currentPosition]
          s2 == [s1 EXCEPT !.currentChunk = Append(s1.currentChunk, paragraph),
                           !.currentTokens = s1.currentTokens + paragraphTokens]
      IN  ParaLoop(paragraphs, k + 1, s2, maxTokens, ctx)

ParagraphChunker_chunk(text, filePath, fileType, cfg, now) ==
    LET paragraphs == SplitParagraphs(text)
        mk(s, e, t) == createMetadata(filePath, fileType, s, e, t, now)
        maxTokens == IF cfg.maxTokens = 0 THEN 1000 ELSE cfg.maxTokens
        st == ParaLoop(paragraphs, 1,
                       [chunks |-> <<>>, currentChunk |-> <<>>, currentTokens |-> 0,
                        startPosition |-> 0, currentPosition |-> 0],
                       maxTokens,
                       [filePath |-> filePath, fileType |-> fileType, now |-> now])
    IN  IF Len(st.currentChunk) > 0
        THEN Append(st.chunks,
                    [content |-> Join(st.currentChunk, <<NL, NL>>),
                     metadata |-> mk(st.startPosition, st.currentPosition,
                                     st.currentTokens)])
        ELSE st.chunks

----------------------------------------------------------------------------
(* Code chunker *)

\* A source program is a sequence of top-level items [kind, lines, blankBefore]:
\* an import (written i), a function declaration (f on each of its lines), an
\* exported function declaration (ef...), another statement (s) or a line
\* comment (//x, //y, //z in order of appearance). Consecutive items are on
\* consecutive lines, with one blank line between them when blankBefore is set.
ItemKinds == {"import", "function", "exportFunction", "statement", "comment"}

CommentValue(n) == IF n = 1 THEN <<"x">> ELSE IF n = 2 THEN <<"y">> ELSE <<"z">>

ItemText(it, n) ==
    LET fn == Join([j \in 1..it.lines |-> <<"f">>], <<NL>>)
    IN  IF it.kind = "import" THEN <<"i">>
        ELSE IF it.kind = "function" THEN fn
        ELSE IF it.kind = "exportFunction" THEN <<"e">> \o fn
        ELSE IF it.kind = "statement" THEN <<"s">>
        ELSE <<"/", "/">> \o CommentValue(n)

\* node.type of the top-level node the parser builds for an item
NodeType(kind) ==
    IF kind = "import" THEN "ImportDeclaration"
    ELSE IF kind = "function" THEN "FunctionDeclaration"
    ELSE IF kind = "exportFunction" THEN "ExportNamedDeclaration"
    ELSE "ExpressionStatement"

\* parse(text, {loc, range, tokens, comment, jsx}): the text, ast.body with
\* 0-based [start, end) ranges and 1-based lines, and ast.comments. The function
\* of an export statement is the export node's declaration, not a body node.
RECURSIVE ParseFrom(_, _, _)
ParseFrom(program, k, st) ==
    IF k > Len(program) THEN st
    ELSE LET it == program[k]
             gap == IF k = 1 THEN 0 ELSE IF it.blankBefore THEN 2 ELSE 1
             itText == ItemText(it, Len(st.comments) + 1)
             start == Len(st.text) + gap
             startLine == st.line + gap
             endLine == startLine + it.lines - 1
             range == <<start, start + Len(itText)>>
             loc == [start |-> startLine, end |-> endLine]
             text == st.text \o [j \in 1..gap |-> NL] \o itText
         IN  IF it.kind = "comment"
             THEN ParseFrom(program, k + 1,
                      [st EXCEPT !.text = text, !.line = endLine,
                                 !.comments = Append(@,
                                     [range |-> range, loc |-> loc,
                                      value |-> CommentValue(Len(st.comments) + 1)])])
             ELSE ParseFrom(program, k + 1,
                      [st EXCEPT !.text = text, !.line = endLine,
                                 !.body = Append(@,
                                     [type |-> NodeType(it.kind),
                                      declaration |-> IF it.kind = "exportFunction"
                                                      THEN "FunctionDeclaration"
                                                      ELSE "none",
                                      range |-> range, loc |-> loc,
                                      name |-> "f"])])
parse(program) ==
    ParseFrom(program, 1, [text |-> <<>>, line |-> 1, body |-> <<>>, comments |-> <<>>])

\* CodeChunker.isDeclarationNode
DeclarationTypes == {"FunctionDeclaration", "ClassDeclaration",
                     "TSInterfaceDeclaration", "TSTypeAliasDeclaration"}
isDeclarationNode(node) == node.type \in DeclarationTypes

\* CodeChunker.findLeadingComments
findLeadingComments(comments, nodeStart) ==
    SelectSeq(comments,
        LAMBDA comment :
            /\ comment.range[2] <= nodeStart
            /\ ~\E o \in 1..Len(comments) :
                  /\ comments[o] # comment
                  /\ comments[o].range[2] <= nodeStart
                  /\ comments[o].range[2] > comment.range[2])

\* createMetadata with its fourth argument
createCodeMetadata(ctx, startPosition, endPosition, tokenCount, additionalMetadata) ==
    [filePath |-> ctx.filePath, fileType |-> ctx.fileType,
     startPosition |-> startPosition, endPosition |-> endPosition,
     tokenCount |-> tokenCount, createdAt |-> ctx.now,
     additionalMetadata |-> additionalMetadata]

\* the import chunk of CodeChunker.chunk
ImportChunks(ast, cfg, ctx) ==
    LET imports == SelectSeq(ast.body, LAMBDA node : node.type = "ImportDeclaration")
        importText == Slice(ast.text, imports[1].range[1], imports[Len(imports)].range[2])
    IN  IF cfg.includeImports /\ Len(imports) > 0
        THEN <<[content |-> importText,
                metadata |-> createCodeMetadata(ctx, imports[1].loc.start,
                                 imports[Len(imports)].loc.end,
                                 estimateTokenCount(importText),
                                 [nodeType |-> "imports"])]>>
        ELSE <<>>

\* the chunk of one body node in the declaration loop of CodeChunker.chunk
DeclarationChunks(ast, node, cfg, ctx) ==
    LET nodeText == Slice(ast.text, node.range[1], node.range[2])
        lines == Len(SplitLines(nodeText))
        minNodeSize == IF cfg.minNodeSize = 0 THEN 1 ELSE cfg.minNodeSize
        comments == findLeadingComments(ast.comments, node.range[1])
        leadingComments ==
            IF cfg.includeComments /\ Len(comments) > 0
            THEN Join([j \in 1..Len(comments) |-> comments[j].value], <<NL>>)
            ELSE <<>>
        finalContent ==
            IF cfg.includeComments /\ Len(comments) > 0
            THEN <<"/", "*">> \o leadingComments \o <<"*", "/", NL>> \o nodeText
            ELSE nodeText
    IN  IF isDeclarationNode(node) /\ lines >= minNodeSize
        THEN <<[content |-> finalContent,
                metadata |-> createCodeMetadata(ctx, node.loc.start, node.loc.end,
                                 estimateTokenCount(finalContent),
                                 [nodeType |-> node.type, name |-> node.name,
                                  hasComments |-> Len(leadingComments) > 0])]>>
        ELSE <<>>

\* the chunk of one export statement
ExportChunk(ast, node, ctx) ==
    LET nodeText == Slice(ast.text, node.range[1], node.range[2])
    IN  [content |-> nodeText,
         metadata |-> createCodeMetadata(ctx, node.loc.start, node.loc.end,
                          estimateTokenCount(nodeText), [nodeType |-> "export"])]

RECURSIVE DeclarationLoop(_, _, _, _)
DeclarationLoop(ast, k, cfg, ctx) ==
    IF k > Len(ast.body) THEN <<>>
    ELSE DeclarationChunks(ast, ast.body[k], cfg, ctx)
             \o DeclarationLoop(ast, k + 1, cfg, ctx)

\* CodeChunker.chunk: imports, then declarations, then exports
CodeChunker_chunk(program, filePath, fileType, cfg, now) ==
    LET ast == parse(program)
        ctx == [filePath |-> filePath, fileType |-> fileType, now |-> now]
        exports == SelectSeq(ast.body,
                       LAMBDA node : node.type \in {"ExportNamedDeclaration",
                                                    "ExportDefaultDeclaration"})
    IN  ImportChunks(ast, cfg, ctx)
            \o DeclarationLoop(ast, 1, cfg, ctx)
            \o [j \in 1..Len(exports) |-> ExportChunk(ast, exports[j], ctx)]

----------------------------------------------------------------------------
(* File system and configuration *)

\* an optional value is a sequence of at most one element
Undefined == <<>>
Null == <<>>

\* the files processFile can be pointed at: the text of each file that exists
FileText(path) ==
    CASE path = "a.md"      -> <<"a", NL, NL, "a">>
      [] path = "b.txt"     -> <<"a", ".">>
      [] path = "c.json"    -> <<"a", NL, "a">>
      [] path = "big.md"    -> <<"a", "a", "a", "a", "a">>
      [] path = "blank.txt" -> <<" ", NL>>
      [] path = "empty.txt" -> <<>>
      [] OTHER              -> <<>>
ExistingPaths == {"a.md", "b.txt", "c.json", "big.md", "blank.txt", "empty.txt"}
Paths == ExistingPaths \cup {"gone.md"}

\* path.extname(filePath).toLowerCase()
extname(path) ==
    CASE path \in {"a.md", "big.md", "gone.md"} -> ".md"
      [] path \in {"b.txt", "blank.txt", "empty.txt"} -> ".txt"
      [] path = "c.json"                        -> ".json"
      [] OTHER                                  -> ""

\* FileProcessor.detectFileType
detectFileType(path) ==
    LET ext == extname(path)
    IN  CASE ext \in {".ts", ".tsx"}    -> "typescript"
          [] ext \in {".js", ".jsx"}    -> "javascript"
          [] ext = ".md"                -> "markdown"
          [] ext = ".json"              -> "json"
          [] ext \in {".yaml", ".yml"}  -> "yaml"
          [] OTHER                      -> "text"

\* ChunkerFactory.create(...).chunk(text): the factory picks the chunker from
\* fileType alone; the files above are none of them code files
ChunkerFactory_chunk(text, filePath, fileType, cfg, now) ==
    CASE fileType \in {"markdown", "text"} ->
             ParagraphChunker_chunk(text, filePath, fileType, cfg, now)
      [] OTHER ->
             LineChunker_chunk(text, filePath, fileType, cfg, now)

\* the configuration the model runs the processor with
ModelConfig(batchSize, maxRetries) ==
    [maxTokens |-> 1, overlap |-> 1, maxFileSize |-> 4,
     embedding |-> [batchSize |-> batchSize, maxRetries |-> maxRetries]]

----------------------------------------------------------------------------
(* Configuration objects.  An object is a function from the keys it has to their
   values; a value is Undefined or a one-element sequence, so that a key that is
   present with the value undefined differs from a key that is absent. *)

\* obj?.key
Get(obj, key) == IF key \in DOMAIN obj THEN obj[key] ELSE Undefined

\* { ...defaults, ...given }: every key given has, whatever its value, the last word
Spread(defaults, given) ==
    [k \in DOMAIN defaults \cup DOMAIN given |->
        IF k \in DOMAIN given THEN given[k] ELSE defaults[k]]

\* the defaults of OpenAIEmbedding.constructor (model and apiKey play no part here)
DefaultEmbeddingConfig ==
    [batchSize |-> <<100>>, concurrency |-> <<5>>, maxRetries |-> <<3>>,
     retryDelay |-> <<1000>>]

\* OpenAIEmbedding.constructor(config = {}): the default parameter stands in for
\* an argument that is undefined
OpenAIEmbedding_constructor(arg) ==
    Spread(DefaultEmbeddingConfig, IF arg = Undefined THEN <<>> ELSE arg[1])

\* the defaults of FileProcessor.constructor
DefaultProcessorConfig ==
    [maxTokens |-> <<1000>>, overlap |-> <<200>>, maxFileSize |-> <<10 * 1024 * 1024>>,
     embedding |-> <<DefaultEmbeddingConfig>>]

\* FileProcessor.constructor(vectorStore, config = {}): this.config and the
\* configuration of the OpenAIEmbedding it creates
FileProcessor_constructor(given) ==
    LET cfg == Spread(DefaultProcessorConfig, given)
    IN  [config |-> cfg, embedding |-> OpenAIEmbedding_constructor(cfg.embedding)]

\* fileProcessorTool.execute: the config object it hands to new FileProcessor;
\* context is context.config, Undefined or <<object>>
fileProcessorTool_config(context) ==
    LET c == IF context = Undefined THEN <<>> ELSE context[1]
    IN  [maxTokens |-> Get(c, "maxTokens"),
         overlap |-> Get(c, "overlap"),
         maxFileSize |-> Get(c, "maxFileSize"),
         embedding |-> IF Get(c, "embedding") = Undefined
                       THEN <<DefaultEmbeddingConfig>>
                       ELSE Get(c, "embedding")]

\* processFile: stats.size > this.config.maxFileSize (false against undefined)
SizeRejected(cfg, size) ==
    cfg.maxFileSize # Undefined /\ size > cfg.maxFileSize[1]
\* the chunkers: this.config.maxTokens || 1000
ChunkBudget(cfg) ==
    IF cfg.maxTokens = Undefined \/ cfg.maxTokens = <<0>> THEN 1000
    ELSE cfg.maxTokens[1]
\* LineChunker: this.config.overlap || 0
LineOverlap(cfg) ==
    IF cfg.overlap = Undefined THEN 0 ELSE cfg.overlap[1]

\* vectorQueryTool.execute: similarities and thresholds are counted in tenths
\* (5 is 0.5). context.threshold || 0.5 and context.limit || 5
vectorQueryTool_threshold(context) ==
    IF context.threshold = Undefined \/ context.threshold[1] = 0
    THEN 5 ELSE context.threshold[1]
vectorQueryTool_limit(context) ==
    IF context.limit = Undefined \/ context.limit[1] = 0 THEN 5 ELSE context.limit[1]
\* searchResults.filter(r => r.similarity >= (context.threshold || 0.5)).map(...)
vectorQueryTool_results(searchResults, context) ==
    LET kept == SelectSeq(searchResults,
                    LAMBDA r : r.similarity >= vectorQueryTool_threshold(context))
    IN  [j \in 1..Len(kept) |->
            [content |-> kept[j].chunk.content, metadata |-> kept[j].chunk.metadata,
             similarity |-> kept[j].similarity]]

----------------------------------------------------------------------------
(* Embedding generator *)

\* OpenAIEmbedding.generateChunkId: sha256 of `${content}:${JSON.stringify(metadata)}`,
\* a value determined by, and (collisions aside) determining, content and metadata
generateChunkId(chunk) == [content |-> chunk.content, metadata |-> chunk.metadata]

\* the vectors the provider may answer with
ProviderVectors == {3}

\* OpenAIEmbedding.createBatches, by index: the chunk indices of batch b (1-based)
\* of n items, items.slice(i, i + batchSize) for i = (b - 1) * batchSize
BatchOf(n, batchSize, b) ==
    {k \in 1..n : (b - 1) * batchSize < k /\ k <= b * batchSize}
\* the number of batches createBatches makes of n items (batchSize >= 1)
NumBatches(n, batchSize) == (n + batchSize - 1) \div batchSize

\* items.slice(start, end): a negative index counts from the end of the array and
\* every index is clamped to the array
ArraySlice(items, start, end) ==
    LET n == Len(items)
        s == IF start < 0 THEN Max(n + start, 0) ELSE Min(start, n)
        e == IF end < 0 THEN Max(n + end, 0) ELSE Min(end, n)
    IN  IF s < e THEN SubSeq(items, s + 1, e) ELSE <<>>

\* createBatches: one iteration of for (let i = 0; i < items.length; i += batchSize);
\* st is [i, batches]
createBatches_step(items, batchSize, st) ==
    [i |-> st.i + batchSize,
     batches |-> Append(st.batches, ArraySlice(items, st.i, st.i + batchSize))]

\* state of the embedChunkWithRetry chain of one chunk
\*   st: "waiting" (its batch has not begun), "calling" (embedText in flight),
\*       "sleeping" (the retryDelay timer is armed), "done", "exhausted" (threw)
\*   calls, fails, pauses: history counters
EmbInit == [st |-> "waiting", retryCount |-> 0, embedding |-> Undefined,
            calls |-> 0, fails |-> 0, pauses |-> 0]

\* first call of embedChunkWithRetry(chunk), retryCount = 0
EmbIssue(e) == [e EXCEPT !.st = "calling", !.calls = e.calls + 1]

\* embedChunkWithRetry: embedText resolved
EmbOnSuccess(e, vec) == [e EXCEPT !.st = "done", !.embedding = <<vec>>]

\* embedChunkWithRetry: the catch block
EmbOnFailureOffByOne(e, maxRetries) ==
    IF e.retryCount <= maxRetries
    THEN [e EXCEPT !.st = "sleeping", !.fails = e.fails + 1]
    ELSE [e EXCEPT !.st = "exhausted", !.fails = e.fails + 1]
EmbOnFailureNoPause(e, maxRetries) ==
    IF e.retryCount < maxRetries
    THEN [e EXCEPT !.st = "calling", !.retryCount = e.retryCount + 1,
                   !.calls = e.calls + 1, !.fails = e.fails + 1]
    ELSE [e EXCEPT !.st = "exhausted", !.fails = e.fails + 1]
EmbOnFailure(e, maxRetries) ==
    IF e.retryCount < maxRetries
    THEN [e EXCEPT !.st = "sleeping", !.fails = e.fails + 1]
    ELSE [e EXCEPT !.st = "exhausted", !.fails = e.fails + 1]

\* embedChunkWithRetry: the retryDelay timer fired, the recursive call
EmbOnTimer(e) ==
    [e EXCEPT !.st = "calling", !.retryCount = e.retryCount + 1,
              !.calls = e.calls + 1, !.pauses = e.pauses + 1]

\* the message of the EmbeddingError embedChunkWithRetry throws
EmbeddingErrorMessage(maxRetries) ==
    <<"Failed to embed chunk after", maxRetries, "retries">>

----------------------------------------------------------------------------
(* Vector store: the statements of saveChunks on the store's one connection *)

\* the double -> float32 conversion of new Float32Array(embedding): a double is
\* modelled by an integer whose lowest bit float32 cannot hold
ToFloat32(v) == 2 * (v \div 2)
\* chunk.embedding ? Buffer.from(new Float32Array(chunk.embedding).buffer) : null
ToBlob(embedding) ==
    IF embedding = Undefined THEN Null ELSE <<ToFloat32(embedding[1])>>
\* JSON.stringify(chunk.metadata)
JSON_stringify(metadata) == [json |-> metadata]

\* the rowid SQLite gives a new row: one more than the largest in the table
NextRowid(rows) ==
    IF rows = {} THEN 1
    ELSE (CHOOSE r \in rows : \A q \in rows : q.rowid <= r.rowid).rowid + 1

\* INSERT OR REPLACE INTO chunks (id, content, metadata, embedding): id is the
\* PRIMARY KEY, so a row with the same id is deleted and the new row is inserted
\* under a new rowid (chosen before the conflicting row is deleted)
InsertKeepingOld(rows, chunk) ==
    IF \E r \in rows : r.id = chunk.id THEN rows
    ELSE rows \cup {[rowid |-> NextRowid(rows), id |-> chunk.id,
                     content |-> chunk.content,
                     metadata |-> JSON_stringify(chunk.metadata),
                     embedding |-> ToBlob(chunk.embedding)]}
InsertOrReplaceChunk(rows, chunk) ==
    {r \in rows : r.id # chunk.id}
        \cup {[rowid |-> NextRowid(rows), id |-> chunk.id,
               content |-> chunk.content,
               metadata |-> JSON_stringify(chunk.metadata),
               embedding |-> ToBlob(chunk.embedding)]}

\* INSERT OR REPLACE INTO chunks_fts (rowid, content, metadata)
\*   VALUES ((SELECT rowid FROM chunks WHERE id = ?), ?, ?)
\* chunks_fts is an external-content index (content='chunks'): a NULL rowid gets
\* the next rowid of the index; REPLACE on an indexed rowid first removes the
\* postings of the text the chunks table now holds under that rowid
InsertOrReplaceFts(rows, fts, chunk) ==
    LET sel == {r \in rows : r.id = chunk.id}
        rid == IF sel = {} THEN NextRowid(fts) ELSE (CHOOSE r \in sel : TRUE).rowid
        removed == {p \in fts : /\ p.rowid = rid
                                /\ \E r \in rows : r.rowid = rid /\ r.content = p.content}
    IN  (fts \ removed) \cup {[rowid |-> rid, content |-> chunk.content]}

\* Buffer.from(new Float32Array(vector).buffer): the little-endian bytes of the
\* float32 components (0 is 00 00 00 00 and 1 is 00 00 80 3f)
Float32Bytes(v) == IF v = 0 THEN <<0, 0, 0, 0>> ELSE <<0, 0, 128, 63>>
RECURSIVE VectorBuffer(_)
VectorBuffer(vector) ==
    IF vector = <<>> THEN <<>>
    ELSE Float32Bytes(Head(vector)) \o VectorBuffer(Tail(vector))

\* the number SQLite's arithmetic operators read from a BLOB operand: the bytes
\* are read as text and the longest prefix of decimal digits is the value, 0
\* when there is none
RECURSIVE DigitsValue(_, _)
DigitsValue(bytes, acc) ==
    IF bytes = <<>> \/ Head(bytes) < 48 \/ Head(bytes) > 57 THEN acc
    ELSE DigitsValue(Tail(bytes), acc * 10 + (Head(bytes) - 48))
BlobToNumber(blob) == DigitsValue(blob, 0)

\* SQLite: x / y is NULL when y is 0; SQRT(n * n) is |n|
SqlDiv(x, y) == IF y = 0 THEN Null ELSE <<x \div y>>
SqrtOfSquare(n) == IF n < 0 THEN 0 - n ELSE n

\* (embedding * ? / (SQRT(embedding * embedding) * SQRT(? * ?))) as similarity
SqlSimilarity(embedding, query) ==
    LET e == BlobToNumber(embedding)
        q == BlobToNumber(query)
    IN  SqlDiv(e * q, SqrtOfSquare(e) * SqrtOfSquare(q))

\* ORDER BY similarity DESC: x may stand before y (NULL sorts below every number)
SimilarityNotBelow(x, y) == y = Null \/ (x # Null /\ x[1] >= y[1])

\* the rows the search statement of VectorStore.search may return for the order
\* the engine gives the rows with an embedding: the first `limit` rows of the
\* order, of which the outer SELECT keeps those WHERE similarity > 0
SearchRows(order, queryBuffer, limit) ==
    LET sim(r) == SqlSimilarity(r.embedding[1], queryBuffer)
        top == SubSeq(order, 1, Min(limit, Len(order)))
        kept == SelectSeq(top, LAMBDA r : sim(r) # Null /\ sim(r)[1] > 0)
    IN  [j \in 1..Len(kept) |->
            [chunk |-> [id |-> kept[j].id, content |-> kept[j].content,
                        metadata |-> kept[j].metadata.json],
             similarity |-> sim(kept[j])[1]]]

\* the orders ORDER BY similarity DESC allows for the rows WHERE embedding IS NOT
\* NULL (rows of equal similarity come in any order)
SearchOrders(rows, queryBuffer) ==
    LET with == {r \in rows : r.embedding # Null}
        n == Cardinality(with)
    IN  {o \in [1..n -> with] :
            /\ \A i, j \in 1..n : i # j => o[i] # o[j]
            /\ \A i \in 1..(n - 1) :
                  SimilarityNotBelow(SqlSimilarity(o[i].embedding[1], queryBuffer),
                                     SqlSimilarity(o[i + 1].embedding[1], queryBuffer))}

\* how a statement can fail for a reason outside the program: "error" aborts the
\* statement alone, "abort" also makes the engine roll the open transaction back
Faults == {"error", "abort"}
NoFault == "none"
----------------------------------------------------------------------------
(* Calls: one record per asynchronous call (a processFile run of a
   processFiles call, or a direct embedChunks / saveChunks call)
     pc: "embed"  embedChunks is running
         "init"   saveChunks awaits initialize()
         "begin", "insert", "fts", "commit", "rollback"
                  the statement saveChunks executes next
         "done"   the call has returned or thrown                           *)

NoResult == [ok |-> FALSE, error |-> "pending", totalChunks |-> 0]
NoSnap == [chunks |-> {}, fts |-> {}]

NewProc(kind, call, path) ==
    [kind |-> kind, call |-> call, path |-> path, startTime |-> 0, pc |-> "done",
     chunks |-> <<>>, emb |-> <<>>, curBatch |-> 0, embOutcome |-> "none",
     batch |-> <<>>, i |-> 0, saveOutcome |-> "none", stmtFailed |-> FALSE,
     pre |-> NoSnap, result |-> NoResult]

\* processFile: the catch block's failure entry
Failed(p, message) ==
    [p EXCEPT !.pc = "done", !.result = [ok |-> FALSE, error |-> message,
                                         totalChunks |-> 0]]

\* saveChunks(batch) is called: it awaits initialize() first
SaveChunksBegin(p, batch, db) ==
    [p EXCEPT !.pc = "init", !.batch = batch, !.i = 1, !.pre = db]

\* embedChunks: the chunks of a finished embedChunks call
Embedded(p) ==
    [k \in 1..Len(p.chunks) |->
        [id |-> generateChunkId(p.chunks[k]), content |-> p.chunks[k].content,
         metadata |-> p.chunks[k].metadata, embedding |-> p.emb[k].embedding]]

\* embedChunks: Promise.all over the chunks of batch b is started
IssueBatch(p, cfg, b) ==
    [p EXCEPT !.curBatch = b,
              !.emb = [k \in 1..Len(p.emb) |->
                          IF k \in BatchOf(Len(p.emb), cfg.embedding.batchSize, b)
                          THEN EmbIssue(p.emb[k]) ELSE p.emb[k]]]

\* processFile after embedChunks returned: saveChunks is called
processFile_afterEmbed(p) == SaveChunksBegin(p, Embedded(p), NoSnap)

\* embedChunks returns its results
EmbedReturn(p) ==
    LET q == [p EXCEPT !.embOutcome = "ok"]
    IN  IF p.kind = "processFile" THEN processFile_afterEmbed(q)
        ELSE [q EXCEPT !.pc = "done", !.batch = Embedded(q)]

\* embedChunks: the for loop over the batches, from batch b on
EmbedFrom(p, cfg, b) ==
    IF b > NumBatches(Len(p.emb), cfg.embedding.batchSize)
    THEN EmbedReturn(p)
    ELSE IssueBatch(p, cfg, b)

\* embedChunks(chunks) is called
EmbedChunksBegin(p, chunkResults, cfg) ==
    EmbedFrom([p EXCEPT !.pc = "embed", !.chunks = chunkResults,
                        !.emb = [k \in 1..Len(chunkResults) |-> EmbInit],
                        !.embOutcome = "pending"],
              cfg, 1)

\* processFile: embedChunks threw an EmbeddingError
processFile_onEmbeddingErrorSavesPartial(p, cfg) ==
    SaveChunksBegin([p EXCEPT !.embOutcome = "error"],
                    SelectSeq(Embedded(p), LAMBDA c : c.embedding # Undefined),
                    NoSnap)
processFile_onEmbeddingError(p, cfg) ==
    Failed([p EXCEPT !.embOutcome = "error"],
           EmbeddingErrorMessage(cfg.embedding.maxRetries))

\* embedChunks: Promise.all rejects with the first chunk that throws
EmbedThrowSkipsChunk(p, cfg) ==
    IF p.embOutcome # "pending" THEN p
    ELSE EmbedFrom(p, cfg, p.curBatch + 1)
EmbedThrow(p, cfg) ==
    IF p.embOutcome # "pending" THEN p
    ELSE IF p.kind = "processFile" THEN processFile_onEmbeddingError(p, cfg)
    ELSE [p EXCEPT !.pc = "done", !.embOutcome = "error"]

\* embedChunks: a chunk of the running batch was embedded
EmbedAdvance(p, cfg) ==
    IF /\ p.embOutcome = "pending"
       /\ \A k \in BatchOf(Len(p.emb), cfg.embedding.batchSize, p.curBatch) :
             p.emb[k].st = "done"
    THEN EmbedFrom(p, cfg, p.curBatch + 1)
    ELSE p

\* processFile up to its first provider call: statSync, the size check,
\* readFileSync, the empty check, the chunker and the first batch of embedChunks
processFile_beginRejectsAtLimit(path, call, cfg, now) ==
    LET p == [NewProc("processFile", call, path) EXCEPT !.startTime = now]
        text == FileText(path)
    IN  IF path \notin ExistingPaths THEN Failed(p, "Unknown error occurred")
        ELSE IF Len(text) >= cfg.maxFileSize
             THEN Failed(p, <<"File size exceeds limit", Len(text), cfg.maxFileSize>>)
        ELSE IF TrimIsEmpty(text) THEN Failed(p, "File is empty")
        ELSE EmbedChunksBegin(p,
                 ChunkerFactory_chunk(text, path, detectFileType(path), cfg, now),
                 cfg)
processFile_begin(path, call, cfg, now) ==
    LET p == [NewProc("processFile", call, path) EXCEPT !.startTime = now]
        text == FileText(path)
    IN  IF path \notin ExistingPaths THEN Failed(p, "Unknown error occurred")
        ELSE IF Len(text) > cfg.maxFileSize
             THEN Failed(p, <<"File size exceeds limit", Len(text), cfg.maxFileSize>>)
        ELSE IF TrimIsEmpty(text) THEN Failed(p, "File is empty")
        ELSE EmbedChunksBegin(p,
                 ChunkerFactory_chunk(text, path, detectFileType(path), cfg, now),
                 cfg)

\* saveChunks returned ("ok") or threw; processFile records the file
FinishSave(p, outcome) ==
    LET q == [p EXCEPT !.pc = "done", !.saveOutcome = outcome]
    IN  IF p.kind # "processFile" THEN q
        ELSE IF outcome = "ok"
             THEN [q EXCEPT !.result = [ok |-> TRUE, error |-> "",
                                        totalChunks |-> Len(p.chunks)]]
             ELSE Failed(q, "Unknown error occurred")

\* processFiles: the aggregate of the per-file results, in input order
RECURSIVE AggregateCountingFailed(_)
AggregateCountingFailed(ps) ==
    IF ps = <<>>
    THEN [processedFiles |-> 0, totalChunks |-> 0, succeeded |-> <<>>, failed |-> <<>>]
    ELSE LET r == AggregateCountingFailed(Tail(ps))
             p == Head(ps)
         IN  IF p.result.ok
             THEN [r EXCEPT !.processedFiles = r.processedFiles + 1,
                            !.totalChunks = r.totalChunks + p.result.totalChunks,
                            !.succeeded = <<p.path>> \o r.succeeded]
             ELSE [r EXCEPT !.processedFiles = r.processedFiles + 1,
                            !.failed = <<[path |-> p.path, error |-> p.result.error]>>
                                          \o r.failed]
RECURSIVE Aggregate(_)
Aggregate(ps) ==
    IF ps = <<>>
    THEN [processedFiles |-> 0, totalChunks |-> 0, succeeded |-> <<>>, failed |-> <<>>]
    ELSE LET r == Aggregate(Tail(ps))
             p == Head(ps)
         IN  IF p.result.ok
             THEN [r EXCEPT !.processedFiles = r.processedFiles + 1,
                            !.totalChunks = r.totalChunks + p.result.totalChunks,
                            !.succeeded = <<p.path>> \o r.succeeded]
             ELSE [r EXCEPT !.failed = <<[path |-> p.path, error |-> p.result.error]>>
                                          \o r.failed]
\* A direct call of a store operation (initialize, saveChunks, search,
\* searchByKeywords, getChunk, getStats). initialize() runs up to its first await
\* when the operation is called: it returns at once when the flag is set and
\* issues CREATE TABLE otherwise. sawInitialized is the flag the call found,
\* schema the number of schema statements it has issued, own the number of its
\* own statements that have run.
StoreOps == {"initialize", "saveChunks", "search", "searchByKeywords", "getChunk",
             "getStats"}
AfterInitialize(kind) ==
    IF kind = "initialize" THEN "done" ELSE IF kind = "saveChunks" THEN "begin" ELSE "own"
StoreOpBeginUnconditional(kind, flag) ==
    [NewProc(kind, 0, "") EXCEPT !.pc = "create1"]
        @@ [sawInitialized |-> flag, schema |-> 1, initDone |-> FALSE,
            initFailed |-> FALSE, own |-> 0, outcome |-> "none"]
StoreOpBegin(kind, flag) ==
    [NewProc(kind, 0, "") EXCEPT !.pc = IF flag THEN AfterInitialize(kind) ELSE "create1"]
        @@ [sawInitialized |-> flag, schema |-> IF flag THEN 0 ELSE 1,
            initDone |-> FALSE, initFailed |-> FALSE, own |-> 0,
            outcome |-> IF flag /\ kind = "initialize" THEN "ok" ELSE "none"]
\* initialize's catch block: throw new DatabaseError('Failed to initialize database')
InitializeFailed(p) ==
    [p EXCEPT !.pc = "done", !.initFailed = TRUE, !.outcome = "DatabaseError"]
\* both schema statements succeeded: this.initialized = true and the operation
\* goes on
InitializeDone(p) ==
    [p EXCEPT !.pc = AfterInitialize(p.kind), !.initDone = TRUE,
              !.outcome = IF p.kind = "initialize" THEN "ok" ELSE "none"]

----------------------------------------------------------------------------
(* Actions *)

Db == [chunks |-> chunks, fts |-> chunks_fts]
SetDb(c, f, tx, snap, owner) ==
    /\ chunks' = c
    /\ chunks_fts' = f
    /\ inTxn' = tx
    /\ txnSnap' = snap
    /\ txnOwner' = owner
DbUnchanged == UNCHANGED <<chunks, chunks_fts, inTxn, txnSnap, txnOwner>>
\* the open transaction is rolled back
DbRollback == SetDb(txnSnap.chunks, txnSnap.fts, FALSE, NoSnap, 0)
\* a statement failed: the engine may have rolled the open transaction back
DbAfterFailure(fault) ==
    IF fault = "abort" /\ inTxn THEN DbRollback ELSE DbUnchanged
\* call t executes a statement; ends: the statement ends the open transaction
Record(t, ends) ==
    hist' = [interleaved |-> hist.interleaved \/ (inTxn /\ txnOwner # t),
             foreignEnd |-> hist.foreignEnd \/ (ends /\ inTxn /\ txnOwner # t)]

Running == {t \in 1..Len(proc) : proc[t].pc # "done"}
\* the processFiles calls made so far
NumCalls == IF proc = <<>> THEN 0 ELSE proc[Len(proc)].call

\* processFiles(filePaths): every processFile runs up to its first await
ProcessFiles(filePaths) ==
    /\ Len(pfResult) = NumCalls
    /\ proc' = proc \o [k \in 1..Len(filePaths) |->
                           processFile_begin(filePaths[k], NumCalls + 1, config, clock)]
    /\ UNCHANGED <<initialized, chunks, chunks_fts, inTxn, txnSnap, txnOwner, hist,
                   config, evalCall, clock, pfResult>>

\* processFiles: Promise.all over the processFile runs has resolved
ProcessFilesReturn ==
    /\ Len(pfResult) < NumCalls
    /\ \A t \in 1..Len(proc) : proc[t].pc = "done"
    /\ pfResult' = Append(pfResult,
           [result |-> Aggregate(SelectSeq(proc, LAMBDA p : p.call = NumCalls)),
            at |-> clock, rows |-> Cardinality(chunks)])
    /\ UNCHANGED <<initialized, chunks, chunks_fts, inTxn, txnSnap, txnOwner, hist,
                   config, evalCall, clock, proc>>

\* a direct embedChunks(chunkResults) call
EmbedChunks(chunkResults) ==
    /\ proc = <<>>
    /\ proc' = <<EmbedChunksBegin(NewProc("embedChunks", 0, ""), chunkResults, config)>>
    /\ UNCHANGED <<initialized, chunks, chunks_fts, inTxn, txnSnap, txnOwner, hist,
                   config, evalCall, clock, pfResult>>

\* a direct saveChunks(batch) call, made when the previous one has finished (whose
\* record is dropped)
SaveChunks(batch) ==
    /\ Running = {}
    /\ NextRowid(chunks) <= MaxRowid
    /\ proc' = <<SaveChunksBegin(NewProc("saveChunks", 0, ""), batch, Db)>>
    /\ UNCHANGED <<initialized, chunks, chunks_fts, inTxn, txnSnap, txnOwner, hist,
                   config, evalCall, clock, pfResult>>

\* the provider answers the embedText call of chunk c of call t
ProviderReply(t, c, ok, vec) ==
    /\ proc[t].emb[c].st = "calling"
    /\ LET p == proc[t]
           e == IF ok THEN EmbOnSuccess(p.emb[c], vec)
                ELSE EmbOnFailure(p.emb[c], config.embedding.maxRetries)
           q == [p EXCEPT !.emb[c] = e]
       IN  proc' = [proc EXCEPT ![t] =
                       IF e.st = "exhausted" THEN EmbedThrow(q, config)
                       ELSE IF e.st = "done" THEN EmbedAdvance(q, config)
                       ELSE q]
    /\ UNCHANGED <<initialized, chunks, chunks_fts, inTxn, txnSnap, txnOwner, hist,
                   config, evalCall, clock, pfResult>>

\* the retryDelay timer of chunk c of call t fires
RetryTimer(t, c) ==
    /\ proc[t].emb[c].st = "sleeping"
    /\ proc' = [proc EXCEPT ![t].emb[c] = EmbOnTimer(proc[t].emb[c])]
    /\ UNCHANGED <<initialized, chunks, chunks_fts, inTxn, txnSnap, txnOwner, hist,
                   config, evalCall, clock, pfResult>>

\* saveChunks: await this.initialize()
SaveInitialize(t, fault) ==
    /\ proc[t].pc = "init"
    /\ IF initialized
       THEN /\ proc' = [proc EXCEPT ![t].pc = "begin"]
            /\ UNCHANGED initialized
       ELSE IF fault = NoFault
       THEN /\ initialized' = TRUE
            /\ proc' = [proc EXCEPT ![t].pc = "begin"]
       ELSE /\ proc' = [proc EXCEPT ![t] = FinishSave(proc[t], "DatabaseError")]
            /\ UNCHANGED initialized
    /\ DbUnchanged
    /\ UNCHANGED <<hist, config, evalCall, clock, pfResult>>

\* saveChunks: BEGIN TRANSACTION
SaveBegin(t, fault) ==
    /\ proc[t].pc = "begin"
    /\ IF fault = NoFault /\ ~inTxn
       THEN /\ SetDb(chunks, chunks_fts, TRUE, Db, t)
            /\ proc' = [proc EXCEPT ![t].pc =
                           IF proc[t].batch = <<>> THEN "commit" ELSE "insert"]
       ELSE /\ DbAfterFailure(fault)
            /\ proc' = [proc EXCEPT ![t].pc = "rollback", ![t].stmtFailed = TRUE]
    /\ Record(t, FALSE)
    /\ UNCHANGED <<initialized, config, evalCall, clock, pfResult>>

\* saveChunks: INSERT OR REPLACE INTO chunks for chunk i of the batch
SaveInsert(t, fault) ==
    /\ proc[t].pc = "insert"
    /\ IF fault = NoFault
       THEN /\ SetDb(InsertOrReplaceChunk(chunks, proc[t].batch[proc[t].i]),
                     chunks_fts, inTxn, txnSnap, txnOwner)
            /\ proc' = [proc EXCEPT ![t].pc = "fts"]
       ELSE /\ DbAfterFailure(fault)
            /\ proc' = [proc EXCEPT ![t].pc = "rollback", ![t].stmtFailed = TRUE]
    /\ Record(t, FALSE)
    /\ UNCHANGED <<initialized, config, evalCall, clock, pfResult>>

\* saveChunks: INSERT OR REPLACE INTO chunks_fts for chunk i of the batch
SaveFts(t, fault) ==
    /\ proc[t].pc = "fts"
    /\ IF fault = NoFault
       THEN /\ SetDb(chunks,
                     InsertOrReplaceFts(chunks, chunks_fts, proc[t].batch[proc[t].i]),
                     inTxn, txnSnap, txnOwner)
            /\ proc' = [proc EXCEPT ![t].i = proc[t].i + 1,
                                    ![t].pc = IF proc[t].i < Len(proc[t].batch)
                                              THEN "insert" ELSE "commit"]
       ELSE /\ DbAfterFailure(fault)
            /\ proc' = [proc EXCEPT ![t].pc = "rollback", ![t].stmtFailed = TRUE]
    /\ Record(t, FALSE)
    /\ UNCHANGED <<initialized, config, evalCall, clock, pfResult>>

\* saveChunks: COMMIT
SaveCommit(t, fault) ==
    /\ proc[t].pc = "commit"
    /\ IF fault = NoFault /\ inTxn
       THEN /\ SetDb(chunks, chunks_fts, FALSE, NoSnap, 0)
            /\ proc' = [proc EXCEPT ![t] = FinishSave(proc[t], "ok")]
            /\ Record(t, TRUE)
       ELSE /\ DbAfterFailure(fault)
            /\ proc' = [proc EXCEPT ![t].pc = "rollback", ![t].stmtFailed = TRUE]
            /\ Record(t, FALSE)
    /\ UNCHANGED <<initialized, config, evalCall, clock, pfResult>>

\* saveChunks: the catch block, ROLLBACK and then throw new DatabaseError(...);
\* a ROLLBACK that fails throws its own error out of the catch block
SaveRollback(t) ==
    /\ proc[t].pc = "rollback"
    /\ IF inTxn
       THEN /\ DbRollback
            /\ proc' = [proc EXCEPT ![t] = FinishSave(proc[t], "DatabaseError")]
            /\ Record(t, TRUE)
       ELSE /\ DbUnchanged
            /\ proc' = [proc EXCEPT ![t] = FinishSave(proc[t], "error")]
            /\ Record(t, FALSE)
    /\ UNCHANGED <<initialized, config, evalCall, clock, pfResult>>

\* fileProcessorTool.execute builds its FileProcessor
ToolExecute ==
    /\ evalCall.fn = "fileProcessorTool"
    /\ ~evalCall.returned
    /\ evalCall' = [fn |-> evalCall.fn, args |-> evalCall.args, returned |-> TRUE,
                    result |-> FileProcessor_constructor(
                                   fileProcessorTool_config(evalCall.args))]
    /\ UNCHANGED <<initialized, chunks, chunks_fts, inTxn, txnSnap, txnOwner, hist,
                   config, clock, proc, pfResult>>

\* new FileProcessor(vectorStore, config)
NewFileProcessor ==
    /\ evalCall.fn = "FileProcessor"
    /\ ~evalCall.returned
    /\ evalCall' = [fn |-> evalCall.fn, args |-> evalCall.args, returned |-> TRUE,
                    result |-> FileProcessor_constructor(evalCall.args)]
    /\ UNCHANGED <<initialized, chunks, chunks_fts, inTxn, txnSnap, txnOwner, hist,
                   config, clock, proc, pfResult>>

\* new LineChunker(filePath, fileType, config).chunk(text)
LineChunk ==
    /\ evalCall.fn = "LineChunker.chunk"
    /\ ~evalCall.returned
    /\ evalCall' = [fn |-> evalCall.fn, args |-> evalCall.args, returned |-> TRUE,
                    result |-> LineChunker_chunk(evalCall.args.text, "f.json", "json",
                                                 evalCall.args.config, clock)]
    /\ UNCHANGED <<initialized, chunks, chunks_fts, inTxn, txnSnap, txnOwner, hist,
                   config, clock, proc, pfResult>>

\* new ParagraphChunker(filePath, fileType, config).chunk(text)
ParagraphChunk ==
    /\ evalCall.fn = "ParagraphChunker.chunk"
    /\ ~evalCall.returned
    /\ evalCall' = [fn |-> evalCall.fn, args |-> evalCall.args, returned |-> TRUE,
                    result |-> ParagraphChunker_chunk(evalCall.args.text, "f.md",
                                                      "markdown", evalCall.args.config,
                                                      clock)]
    /\ UNCHANGED <<initialized, chunks, chunks_fts, inTxn, txnSnap, txnOwner, hist,
                   config, clock, proc, pfResult>>

\* new CodeChunker(filePath, fileType, config).chunk(text)
CodeChunk ==
    /\ evalCall.fn = "CodeChunker.chunk"
    /\ ~evalCall.returned
    /\ evalCall' = [fn |-> evalCall.fn, args |-> evalCall.args, returned |-> TRUE,
                    result |-> CodeChunker_chunk(evalCall.args.program, "f.ts",
                                                 "typescript", evalCall.args.config,
                                                 clock)]
    /\ UNCHANGED <<initialized, chunks, chunks_fts, inTxn, txnSnap, txnOwner, hist,
                   config, clock, proc, pfResult>>

\* VectorStore.search(queryVector, limit) on an initialized store: one SELECT,
\* whose failure is raised as DatabaseError
Search(fault) ==
    /\ evalCall.fn = "VectorStore.search"
    /\ ~evalCall.returned
    /\ initialized
    /\ IF fault # NoFault
       THEN evalCall' = [fn |-> evalCall.fn, args |-> evalCall.args, returned |-> TRUE,
                         result |-> [outcome |-> "DatabaseError", rows |-> <<>>]]
       ELSE \E o \in SearchOrders(chunks, VectorBuffer(evalCall.args.queryVector)) :
               evalCall' = [fn |-> evalCall.fn, args |-> evalCall.args,
                            returned |-> TRUE,
                            result |-> [outcome |-> "ok",
                                        rows |-> SearchRows(o,
                                            VectorBuffer(evalCall.args.queryVector),
                                            evalCall.args.limit)]]
    /\ UNCHANGED <<initialized, chunks, chunks_fts, inTxn, txnSnap, txnOwner, hist,
                   config, clock, proc, pfResult>>

\* vectorQueryTool.execute: the store's search answers with searchResults (at most
\* the limit it was given, each of a similarity above 0), or a step of the
\* handler throws and the tool raises its own Error
VectorQuery(searchResults, ok) ==
    /\ evalCall.fn = "vectorQueryTool"
    /\ ~evalCall.returned
    /\ Len(searchResults) <= vectorQueryTool_limit(evalCall.args)
    /\ evalCall' = [fn |-> evalCall.fn, args |-> evalCall.args, returned |-> TRUE,
                    result |-> IF ok
                               THEN [outcome |-> "ok", searchResults |-> searchResults,
                                     results |-> vectorQueryTool_results(searchResults,
                                                                         evalCall.args)]
                               ELSE [outcome |-> "Error", searchResults |-> <<>>,
                                     results |-> <<>>]]
    /\ UNCHANGED <<initialized, chunks, chunks_fts, inTxn, txnSnap, txnOwner, hist,
                   config, clock, proc, pfResult>>

\* a store operation is called directly
StoreCall(kind) ==
    /\ Len(proc) < MaxOps
    /\ proc' = Append(proc, StoreOpBegin(kind, initialized))
    /\ UNCHANGED <<initialized, chunks, chunks_fts, inTxn, txnSnap, txnOwner, hist,
                   config, evalCall, clock, pfResult>>

\* initialize: CREATE TABLE IF NOT EXISTS chunks completes
CreateTable(t, fault) ==
    /\ proc[t].pc = "create1"
    /\ IF fault = NoFault
       THEN /\ proc' = [proc EXCEPT ![t].pc = "create2", ![t].schema = 2]
            /\ DbUnchanged
       ELSE /\ proc' = [proc EXCEPT ![t] = InitializeFailed(proc[t])]
            /\ DbAfterFailure(fault)
    /\ Record(t, FALSE)
    /\ UNCHANGED <<initialized, config, evalCall, clock, pfResult>>

\* initialize: CREATE VIRTUAL TABLE IF NOT EXISTS chunks_fts completes
CreateIndex(t, fault) ==
    /\ proc[t].pc = "create2"
    /\ IF fault = NoFault
       THEN /\ proc' = [proc EXCEPT ![t] = InitializeDone(proc[t])]
            /\ initialized' = TRUE
            /\ DbUnchanged
       ELSE /\ proc' = [proc EXCEPT ![t] = InitializeFailed(proc[t])]
            /\ UNCHANGED initialized
            /\ DbAfterFailure(fault)
    /\ Record(t, FALSE)
    /\ UNCHANGED <<config, evalCall, clock, pfResult>>

\* search, searchByKeywords, getChunk, getStats: the operation's one statement
OwnStatement(t, fault) ==
    /\ proc[t].pc = "own"
    /\ proc' = [proc EXCEPT ![t].pc = "done", ![t].own = 1,
                            ![t].outcome = IF fault = NoFault THEN "ok"
                                           ELSE "DatabaseError"]
    /\ IF fault = NoFault THEN DbUnchanged ELSE DbAfterFailure(fault)
    /\ Record(t, FALSE)
    /\ UNCHANGED <<initialized, config, evalCall, clock, pfResult>>

\* embedChunks calls createBatches: one iteration of its loop. prev is i before
\* the iteration; the model follows the loop for MaxIterations iterations
CreateBatchesStep ==
    /\ evalCall.fn = "createBatches"
    /\ ~evalCall.returned
    /\ evalCall.result.i < Len(evalCall.args.items)
    /\ Len(evalCall.result.batches) < MaxIterations
    /\ evalCall' = [fn |-> evalCall.fn, args |-> evalCall.args, returned |-> FALSE,
                    result |-> createBatches_step(evalCall.args.items,
                                   evalCall.args.batchSize,
                                   [i |-> evalCall.result.i,
                                    batches |-> evalCall.result.batches])
                               @@ [prev |-> evalCall.result.i]]
    /\ UNCHANGED <<initialized, chunks, chunks_fts, inTxn, txnSnap, txnOwner, hist,
                   config, clock, proc, pfResult>>

\* createBatches: the loop condition fails, return batches
CreateBatchesReturn ==
    /\ evalCall.fn = "createBatches"
    /\ ~evalCall.returned
    /\ evalCall.result.i >= Len(evalCall.args.items)
    /\ evalCall' = [evalCall EXCEPT !.returned = TRUE]
    /\ UNCHANGED <<initialized, chunks, chunks_fts, inTxn, txnSnap, txnOwner, hist,
                   config, clock, proc, pfResult>>

\* time passes
Tick ==
    /\ clock < MaxClock
    /\ clock' = clock + 1
    /\ UNCHANGED <<initialized, chunks, chunks_fts, inTxn, txnSnap, txnOwner, hist,
                   config, evalCall, proc, pfResult>>

----------------------------------------------------------------------------
(* Specifications *)

InitStore ==
    /\ initialized = FALSE
    /\ chunks = {}
    /\ chunks_fts = {}
    /\ inTxn = FALSE
    /\ txnSnap = NoSnap
    /\ txnOwner = 0
    /\ hist = [interleaved |-> FALSE, foreignEnd |-> FALSE]
    /\ clock = 0
    /\ proc = <<>>
    /\ pfResult = <<>>

NoCall == [fn |-> "none", returned |-> FALSE]

\* the lists of paths processFiles is called with: distinct paths, in one order
PathRank(path) ==
    CASE path = "a.md" -> 1 [] path = "b.txt" -> 2 [] path = "c.json" -> 3
      [] path = "big.md" -> 4 [] path = "blank.txt" -> 5
      [] path = "empty.txt" -> 6 [] OTHER -> 7
PathLists ==
    {l \in UNION {[1..n -> Paths] : n \in 1..MaxFiles} :
        \A i \in 1..(Len(l) - 1) : PathRank(l[i]) < PathRank(l[i + 1])}

\* Spec: one processFiles call over concurrently processed files
Init ==
    /\ InitStore
    /\ evalCall = NoCall
    /\ config \in {ModelConfig(b, 1) : b \in 1..2}

Next ==
    \/ \E l \in PathLists : NumCalls = 0 /\ ProcessFiles(l)
    \/ ProcessFilesReturn
    \/ \E t \in 1..Len(proc) : \E c \in 1..Len(proc[t].emb) : \E ok \in BOOLEAN :
          \E vec \in ProviderVectors : ProviderReply(t, c, ok, vec)
    \/ \E t \in 1..Len(proc) : \E c \in 1..Len(proc[t].emb) : RetryTimer(t, c)
    \/ \E t \in 1..Len(proc) : SaveInitialize(t, NoFault)
    \/ \E t \in 1..Len(proc) : SaveBegin(t, NoFault)
    \/ \E t \in 1..Len(proc) : SaveInsert(t, NoFault)
    \/ \E t \in 1..Len(proc) : SaveFts(t, NoFault)
    \/ \E t \in 1..Len(proc) : SaveCommit(t, NoFault)
    \/ \E t \in 1..Len(proc) : SaveRollback(t)

Spec == Init /\ [][Next]_vars
\* SpecSave: direct saveChunks calls, one after another, whose statements may fail
ChunkUniverse ==
    [id : {"x", "y"}, content : {<<"a">>, <<".">>},
     metadata : {[filePath |-> "p"]}, embedding : {Undefined, <<3>>}]
Batches == UNION {[1..n -> ChunkUniverse] : n \in 0..MaxBatch}

InitSave ==
    /\ InitStore
    /\ evalCall = NoCall
    /\ config = ModelConfig(1, 1)

NextSave ==
    \/ \E batch \in Batches : SaveChunks(batch)
    \/ \E t \in 1..Len(proc) : \E f \in {NoFault} \cup Faults : SaveInitialize(t, f)
    \/ \E t \in 1..Len(proc) : \E f \in {NoFault} \cup Faults : SaveBegin(t, f)
    \/ \E t \in 1..Len(proc) : \E f \in {NoFault} \cup Faults : SaveInsert(t, f)
    \/ \E t \in 1..Len(proc) : \E f \in {NoFault} \cup Faults : SaveFts(t, f)
    \/ \E t \in 1..Len(proc) : \E f \in {NoFault} \cup Faults : SaveCommit(t, f)
    \/ \E t \in 1..Len(proc) : SaveRollback(t)

SpecSave == InitSave /\ [][NextSave]_vars

\* SpecEmbed: one direct embedChunks call on the chunks of a file
ValidPaths == {"a.md", "b.txt", "c.json"}
ChunkLists ==
    {ChunkerFactory_chunk(FileText(path), path, detectFileType(path),
                          ModelConfig(1, 1), 0) : path \in ValidPaths}
        \cup {ParagraphChunker_chunk(<<"a", NL, NL, ".", NL, NL, "a">>, "d.md",
                                     "markdown", ModelConfig(1, 1), 0)}

InitEmbed ==
    /\ InitStore
    /\ evalCall = NoCall
    /\ config \in {ModelConfig(b, r) : b \in 1..2, r \in 0..MaxRetriesBound}

NextEmbed ==
    \/ \E l \in ChunkLists : EmbedChunks(l)
    \/ \E t \in 1..Len(proc) : \E c \in 1..Len(proc[t].emb) : \E ok \in BOOLEAN :
          \E vec \in ProviderVectors : ProviderReply(t, c, ok, vec)
    \/ \E t \in 1..Len(proc) : \E c \in 1..Len(proc[t].emb) : RetryTimer(t, c)

SpecEmbed == InitEmbed /\ [][NextEmbed]_vars

\* SpecRerun: processFiles on one file at a time, again and again, as time passes
InitRerun ==
    /\ InitStore
    /\ evalCall = NoCall
    /\ config = ModelConfig(2, 1)

NextRerun ==
    \/ \E path \in Paths : NumCalls < MaxRuns /\ ProcessFiles(<<path>>)
    \/ ProcessFilesReturn
    \/ Tick
    \/ \E t \in 1..Len(proc) : \E c \in 1..Len(proc[t].emb) : \E ok \in BOOLEAN :
          \E vec \in ProviderVectors : ProviderReply(t, c, ok, vec)
    \/ \E t \in 1..Len(proc) : \E c \in 1..Len(proc[t].emb) : RetryTimer(t, c)
    \/ \E t \in 1..Len(proc) : \E f \in {NoFault} \cup Faults : SaveInitialize(t, f)
    \/ \E t \in 1..Len(proc) : \E f \in {NoFault} \cup Faults : SaveBegin(t, f)
    \/ \E t \in 1..Len(proc) : \E f \in {NoFault} \cup Faults : SaveInsert(t, f)
    \/ \E t \in 1..Len(proc) : \E f \in {NoFault} \cup Faults : SaveFts(t, f)
    \/ \E t \in 1..Len(proc) : \E f \in {NoFault} \cup Faults : SaveCommit(t, f)
    \/ \E t \in 1..Len(proc) : SaveRollback(t)

SpecRerun == InitRerun /\ [][NextRerun]_vars

\* SpecList: one processFiles call on any list of paths, a path given twice included
AnyPathLists == UNION {[1..n -> Paths] : n \in 1..MaxListLen}

InitList ==
    /\ InitStore
    /\ evalCall = NoCall
    /\ config = ModelConfig(2, 1)

NextList ==
    \/ \E l \in AnyPathLists : NumCalls = 0 /\ ProcessFiles(l)
    \/ ProcessFilesReturn
    \/ \E t \in 1..Len(proc) : \E c \in 1..Len(proc[t].emb) : \E ok \in BOOLEAN :
          \E vec \in ProviderVectors : ProviderReply(t, c, ok, vec)
    \/ \E t \in 1..Len(proc) : \E c \in 1..Len(proc[t].emb) : RetryTimer(t, c)
    \/ \E t \in 1..Len(proc) : \E f \in {NoFault} \cup Faults : SaveInitialize(t, f)
    \/ \E t \in 1..Len(proc) : \E f \in {NoFault} \cup Faults : SaveBegin(t, f)
    \/ \E t \in 1..Len(proc) : \E f \in {NoFault} \cup Faults : SaveInsert(t, f)
    \/ \E t \in 1..Len(proc) : \E f \in {NoFault} \cup Faults : SaveFts(t, f)
    \/ \E t \in 1..Len(proc) : \E f \in {NoFault} \cup Faults : SaveCommit(t, f)
    \/ \E t \in 1..Len(proc) : SaveRollback(t)

SpecList == InitList /\ [][NextList]_vars

\* SpecConfig: the configuration a caller's options resolve to, through the
\* file-processor tool and through the FileProcessor constructor
GivenEmbedding(K) ==
    [k \in K |-> CASE k = "batchSize" -> <<2>> [] k = "concurrency" -> <<1>>
                    [] k = "maxRetries" -> <<1>> [] OTHER -> <<10>>]
EmbeddingKeys == {"batchSize", "concurrency", "maxRetries", "retryDelay"}
\* an options object with the keys K, its embedding with the keys E
GivenConfig(K, E) ==
    [k \in K |-> CASE k = "maxTokens" -> <<5>> [] k = "overlap" -> <<1>>
                    [] k = "maxFileSize" -> <<3>> [] OTHER -> <<GivenEmbedding(E)>>]
ConfigKeys == {"maxTokens", "overlap", "maxFileSize", "embedding"}
\* the tool's input schema: an embedding object has all four numbers
ToolContexts ==
    {Undefined} \cup {<<GivenConfig(K, EmbeddingKeys)>> : K \in SUBSET ConfigKeys}
PartialConfigs ==
    {GivenConfig(K, E) : K \in SUBSET ConfigKeys, E \in SUBSET EmbeddingKeys}

InitConfig ==
    /\ InitStore
    /\ config = ModelConfig(1, 1)
    /\ \/ \E c \in ToolContexts :
              evalCall = [fn |-> "fileProcessorTool", args |-> c, returned |-> FALSE]
       \/ \E c \in PartialConfigs :
              evalCall = [fn |-> "FileProcessor", args |-> c, returned |-> FALSE]

NextConfig ==
    \/ ToolExecute
    \/ NewFileProcessor

SpecConfig == InitConfig /\ [][NextConfig]_vars

\* SpecChunk: one direct call of the line or the paragraph chunker on a text of
\* up to MaxLines lines, with a positive token budget and any overlap the tool's
\* schema accepts, from -1 to MaxOverlap
LineSet == {<<>>, <<"a">>, <<"a", "a">>, <<"a", "a", "a", "a">>, <<".">>}
TextLines == UNION {[1..n -> LineSet] : n \in 1..MaxLines}
ChunkerConfigs ==
    [maxTokens : {1, 2, 3, 10}, overlap : (-1)..MaxOverlap]

InitChunk ==
    /\ InitStore
    /\ config = ModelConfig(1, 1)
    /\ \E l \in TextLines : \E c \in ChunkerConfigs :
          \E f \in {"LineChunker.chunk", "ParagraphChunker.chunk"} :
              evalCall = [fn |-> f, args |-> [text |-> Join(l, <<NL>>), config |-> c],
                          returned |-> FALSE]

NextChunk ==
    \/ LineChunk
    \/ ParagraphChunk

SpecChunk == InitChunk /\ [][NextChunk]_vars

\* SpecCode: one direct call of the code chunker on a program of up to MaxItems
\* top-level items
Items ==
    {it \in [kind : ItemKinds, lines : 1..2, blankBefore : BOOLEAN] :
        it.lines = 2 => it.kind \in {"function", "exportFunction"}}
Programs ==
    {p \in UNION {[1..n -> Items] : n \in 1..MaxItems} : ~p[1].blankBefore}
CodeChunkerConfigs ==
    [minNodeSize : 0..2, includeImports : BOOLEAN, includeComments : BOOLEAN]

InitCode ==
    /\ InitStore
    /\ config = ModelConfig(1, 1)
    /\ \E p \in Programs : \E c \in CodeChunkerConfigs :
          evalCall = [fn |-> "CodeChunker.chunk",
                      args |-> [program |-> p, config |-> c], returned |-> FALSE]

NextCode == CodeChunk

SpecCode == InitCode /\ [][NextCode]_vars

\* SpecSearch: one search on an initialized store that holds any of four saved
\* chunks: three with the embeddings [1,0], [0,1], [1,1] and one without
StoredVector(id) ==
    IF id = "e10" THEN <<<<1, 0>>>> ELSE IF id = "e01" THEN <<<<0, 1>>>>
    ELSE IF id = "e11" THEN <<<<1, 1>>>> ELSE Undefined
SearchIds == <<"e10", "e01", "e11", "none">>
SavedRow(n) ==
    [rowid |-> n, id |-> SearchIds[n], content |-> <<"a">>,
     metadata |-> JSON_stringify([filePath |-> "p"]),
     embedding |-> IF StoredVector(SearchIds[n]) = Undefined THEN Null
                   ELSE <<VectorBuffer(StoredVector(SearchIds[n])[1])>>]
QueryVectors == {<<1, 0>>, <<0, 1>>, <<1, 1>>}

InitSearch ==
    /\ initialized = TRUE
    /\ \E S \in SUBSET (1..Len(SearchIds)) :
          /\ chunks = {SavedRow(n) : n \in S}
          /\ chunks_fts = {[rowid |-> n, content |-> <<"a">>] : n \in S}
    /\ inTxn = FALSE
    /\ txnSnap = NoSnap
    /\ txnOwner = 0
    /\ hist = [interleaved |-> FALSE, foreignEnd |-> FALSE]
    /\ clock = 0
    /\ proc = <<>>
    /\ pfResult = <<>>
    /\ config = ModelConfig(1, 1)
    /\ \E q \in QueryVectors : \E l \in 1..MaxLimit :
          evalCall = [fn |-> "VectorStore.search",
                      args |-> [queryVector |-> q, limit |-> l], returned |-> FALSE]

NextSearch == \E f \in {NoFault} \cup Faults : Search(f)

SpecSearch == InitSearch /\ [][NextSearch]_vars

\* SpecQuery: one call of the vector-query tool; the threshold is omitted or one of
\* 0, 0.3, 0.5, 1 and the store answers with up to MaxResults results
QueryContexts ==
    [threshold : {Undefined, <<0>>, <<3>>, <<5>>, <<10>>},
     limit : {Undefined, <<0>>, <<1>>, <<2>>}]
SearchResultLists ==
    UNION {[1..n -> [chunk : {[id |-> "x", content |-> <<"a">>,
                               metadata |-> [filePath |-> "p"]]},
                     similarity : {2, 5, 8, 10}]] : n \in 0..MaxResults}

InitQuery ==
    /\ InitStore
    /\ config = ModelConfig(1, 1)
    /\ \E c \in QueryContexts :
          evalCall = [fn |-> "vectorQueryTool", args |-> c, returned |-> FALSE]

NextQuery == \E sr \in SearchResultLists : \E ok \in BOOLEAN : VectorQuery(sr, ok)

SpecQuery == InitQuery /\ [][NextQuery]_vars

\* SpecInit: up to MaxOps direct store operations on a new VectorStore, run
\* concurrently, every statement of which may fail; saveChunks is given the
\* empty list
InitInit ==
    /\ InitStore
    /\ evalCall = NoCall
    /\ config = ModelConfig(1, 1)

NextInit ==
    \/ \E k \in StoreOps : StoreCall(k)
    \/ \E t \in 1..Len(proc) : \E f \in {NoFault} \cup Faults : CreateTable(t, f)
    \/ \E t \in 1..Len(proc) : \E f \in {NoFault} \cup Faults : CreateIndex(t, f)
    \/ \E t \in 1..Len(proc) : \E f \in {NoFault} \cup Faults : OwnStatement(t, f)
    \/ \E t \in 1..Len(proc) : \E f \in {NoFault} \cup Faults : SaveBegin(t, f)
    \/ \E t \in 1..Len(proc) : \E f \in {NoFault} \cup Faults : SaveCommit(t, f)
    \/ \E t \in 1..Len(proc) : SaveRollback(t)

SpecInit == InitInit /\ [][NextInit]_vars

\* SpecBatches: embedChunks splits a list of up to MaxChunks chunks (named 1, 2,
\* ...) into batches, for every whole batchSize from -2 to MaxChunks
InitBatches ==
    /\ InitStore
    /\ config = ModelConfig(1, 1)
    /\ \E n \in 0..MaxChunks : \E b \in (-2)..MaxChunks :
          evalCall = [fn |-> "createBatches",
                      args |-> [items |-> [k \in 1..n |-> k], batchSize |-> b],
                      returned |-> FALSE,
                      result |-> [i |-> 0, batches |-> <<>>, prev |-> 0]]

NextBatches ==
    \/ CreateBatchesStep
    \/ CreateBatchesReturn

SpecBatches == InitBatches /\ [][NextBatches]_vars

----------------------------------------------------------------------------
(* Claims *)

Procs == 1..Len(proc)
SaveCalled(p) == p.pc \in {"init", "begin", "insert", "fts", "commit", "rollback"}
                    \/ p.saveOutcome # "none"
SaveFailed(p) == p.pc = "done" /\ p.saveOutcome \in {"DatabaseError", "error"}
Stored(id) == \E r \in chunks : r.id = id

\* C1: overlapping saveChunks calls are serialized: no statement of a call runs
\* inside the transaction another call began, and no COMMIT or ROLLBACK of a call
\* ends a transaction another call began
C1_Serialized == ~hist.interleaved /\ ~hist.foreignEnd

\* C2: once a saveChunks call has failed, the store holds no chunk of its batch
C2_FailedBatchAbsent ==
    \A t \in Procs :
        SaveFailed(proc[t]) =>
            \A k \in 1..Len(proc[t].batch) : ~Stored(proc[t].batch[k].id)

\* C3: when processFiles has returned, every chunk of every file it reports in
\* succeeded is in the store
C3_SucceededStored ==
    \A n \in 1..Len(pfResult) : \A t \in Procs :
        (proc[t].call = n /\ proc[t].result.ok) =>
            \A k \in 1..Len(proc[t].batch) : Stored(proc[t].batch[k].id)
\* the call made last, and whether it is a finished direct saveChunks call
LastCall == proc[Len(proc)]
LastSaveDone ==
    /\ proc # <<>>
    /\ LastCall.kind = "saveChunks"
    /\ LastCall.pc = "done"

\* C4: a saveChunks call running alone, one of whose statements (BEGIN, an insert,
\* a full-text insert, COMMIT) failed, raises DatabaseError and leaves the store
\* as it was before the call
C4_FailureRaisesDatabaseError ==
    (LastSaveDone /\ LastCall.stmtFailed) =>
        /\ LastCall.saveOutcome = "DatabaseError"
        /\ Db = LastCall.pre

\* C5: between saveChunks calls the full-text index and the chunks table
\* correspond one to one: every row has exactly one posting, of its own content,
\* and every posting belongs to a row
C5_IndexesCorrespond ==
    Running = {} =>
        /\ \A r \in chunks :
              /\ Cardinality({p \in chunks_fts : p.rowid = r.rowid}) = 1
              /\ \A p \in chunks_fts : p.rowid = r.rowid => p.content = r.content
        /\ \A p \in chunks_fts : \E r \in chunks : r.rowid = p.rowid

\* the chunk of a batch that is saved last under an id
LastOf(batch, id) ==
    batch[CHOOSE k \in 1..Len(batch) :
             /\ batch[k].id = id
             /\ \A j \in (k + 1)..Len(batch) : batch[j].id # id]
BatchIds(batch) == {batch[k].id : k \in 1..Len(batch)}
Holds(r, c) ==
    /\ r.id = c.id
    /\ r.content = c.content
    /\ r.metadata = JSON_stringify(c.metadata)
    /\ r.embedding = ToBlob(c.embedding)

\* C6: no two rows of chunks share an id; after a saveChunks call that succeeded
\* every id of its batch has one row, holding what the batch saved last under that
\* id (its content, its serialized metadata, its embedding as stored), and the rows
\* of the other ids are the rows from before the call
C6_Upsert ==
    /\ \A r1, r2 \in chunks : r1.id = r2.id => r1 = r2
    /\ (LastSaveDone /\ LastCall.saveOutcome = "ok") =>
          /\ \A id \in BatchIds(LastCall.batch) :
                \E r \in chunks : Holds(r, LastOf(LastCall.batch, id))
          /\ \A r \in LastCall.pre.chunks :
                r.id \notin BatchIds(LastCall.batch) => r \in chunks
          /\ \A r \in chunks :
                r.id \notin BatchIds(LastCall.batch) => r \in LastCall.pre.chunks

\* C6 witness: a successful call has saved, with another content, an id that an
\* earlier call had stored, in a batch that names one id twice
C6_Witness ==
    /\ LastSaveDone
    /\ LastCall.saveOutcome = "ok"
    /\ \E r \in LastCall.pre.chunks : \E k \in 1..Len(LastCall.batch) :
          /\ LastCall.batch[k].id = r.id
          /\ LastOf(LastCall.batch, r.id).content # r.content
    /\ Len(LastCall.batch) = 2
    /\ LastCall.batch[1].id = LastCall.batch[2].id
    /\ LastCall.batch[1] # LastCall.batch[2]

\* the processFile run of the n-th processFiles call (of one path)
RunOf(n) == CHOOSE t \in Procs : proc[t].call = n

\* C7: processing the same unchanged file a second time, at another time, leaves
\* as many rows in the store as the first run left
C7_ReprocessKeepsRowCount ==
    (/\ Len(pfResult) = 2
     /\ proc[RunOf(1)].path = proc[RunOf(2)].path
     /\ proc[RunOf(1)].result.ok
     /\ proc[RunOf(2)].result.ok
     /\ proc[RunOf(1)].startTime # proc[RunOf(2)].startTime)
        => pfResult[2].rows = pfResult[1].rows

EmbStates == {<<t, c>> \in Procs \X (1..MaxBatch + 1) : c <= Len(proc[t].emb)}
CfgMaxRetries == config.embedding.maxRetries

\* C8: a chunk whose provider calls have failed maxRetries times in a row has
\* made embedChunks raise, and no further provider call is made for it
C8_RaisesAfterMaxRetriesFailures ==
    \A tc \in EmbStates :
        LET p == proc[tc[1]]
            e == p.emb[tc[2]]
        IN  (CfgMaxRetries >= 1 /\ e.fails >= CfgMaxRetries) =>
                /\ e.st = "exhausted"
                /\ e.calls = CfgMaxRetries
                /\ p.embOutcome = "error"

\* C8 as amended: a chunk's provider calls fail at most maxRetries + 1 times (the
\* first call and maxRetries retries); when they have, embedChunks has raised and
\* no provider call for the chunk is in flight or will be made
C8_RaisesAfterRetriesExhausted ==
    \A tc \in EmbStates :
        LET p == proc[tc[1]]
            e == p.emb[tc[2]]
        IN  /\ e.fails <= CfgMaxRetries + 1
            /\ e.calls <= CfgMaxRetries + 1
            /\ e.fails = CfgMaxRetries + 1 =>
                  /\ e.st = "exhausted"
                  /\ p.embOutcome = "error"
                  /\ p.pc = "done"
            /\ e.st = "exhausted" => e.fails = CfgMaxRetries + 1

\* C8 witness: with retries configured, a chunk has used them all up
C8_Witness ==
    \E tc \in EmbStates :
        /\ CfgMaxRetries >= 1
        /\ proc[tc[1]].emb[tc[2]].st = "exhausted"
        /\ proc[tc[1]].embOutcome = "error"

\* C9: a chunk is retried at most maxRetries times, each retry after a failed call
\* and a pause; its result is that of the first call that succeeds; embedChunks
\* raises only when a chunk has used up its retries, and returns when all succeed
C9_RetryDiscipline ==
    \A tc \in EmbStates :
        LET p == proc[tc[1]]
            e == p.emb[tc[2]]
        IN  /\ e.retryCount <= CfgMaxRetries
            /\ e.pauses = e.retryCount
            /\ e.calls = (IF e.st = "waiting" THEN 0 ELSE e.retryCount + 1)
            /\ e.fails = e.calls - (IF e.st \in {"calling", "done"} THEN 1 ELSE 0)
            /\ e.st = "done" <=> e.embedding # Undefined
            /\ e.st = "exhausted" => e.retryCount = CfgMaxRetries
            /\ p.embOutcome = "error" =>
                  \E k \in 1..Len(p.emb) : p.emb[k].st = "exhausted"
            /\ (\A k \in 1..Len(p.emb) : p.emb[k].st = "done") => p.embOutcome = "ok"
            /\ p.embOutcome = "ok" =>
                  /\ \A k \in 1..Len(p.emb) : p.emb[k].st = "done"
                  /\ Len(p.batch) = Len(p.chunks)

\* C9 witness: embedChunks returned normally although a chunk failed
\* maxRetries - 1 times (and another maxRetries times) before it succeeded
C9_Witness ==
    \E t \in Procs :
        /\ CfgMaxRetries >= 2
        /\ proc[t].embOutcome = "ok"
        /\ \E k \in 1..Len(proc[t].emb) : proc[t].emb[k].fails = CfgMaxRetries - 1
        /\ \E k \in 1..Len(proc[t].emb) : proc[t].emb[k].fails = CfgMaxRetries

\* C10: processFile calls saveChunks only when embedChunks has returned every
\* chunk of the file embedded; when embedChunks raised, saveChunks is never
\* called for the file, the store holds no row of it, and the file is reported
\* failed with the EmbeddingError's message
C10_SaveOnlyAfterEmbed ==
    \A t \in Procs :
        LET p == proc[t]
        IN  p.kind = "processFile" =>
              /\ SaveCalled(p) =>
                    /\ p.embOutcome = "ok"
                    /\ \A k \in 1..Len(p.emb) : p.emb[k].st = "done"
                    /\ p.batch = Embedded(p)
              /\ p.embOutcome = "error" =>
                    /\ ~SaveCalled(p)
                    /\ p.pc = "done"
                    /\ p.result = [ok |-> FALSE,
                                   error |-> EmbeddingErrorMessage(CfgMaxRetries),
                                   totalChunks |-> 0]
                    /\ \A r \in chunks : r.metadata.json.filePath # p.path
                    /\ \A n \in 1..Len(pfResult) : p.call = n =>
                          \E i \in 1..Len(pfResult[n].result.failed) :
                              pfResult[n].result.failed[i] =
                                  [path |-> p.path,
                                   error |-> EmbeddingErrorMessage(CfgMaxRetries)]

\* C10 witness: processFiles has returned; a file failed in embedChunks after one
\* of its chunks had been embedded, and another file's chunks were stored
C10_Witness ==
    /\ Len(pfResult) = 1
    /\ \E t \in Procs :
          /\ proc[t].embOutcome = "error"
          /\ \E k \in 1..Len(proc[t].emb) : proc[t].emb[k].st = "done"
    /\ \E t \in Procs : proc[t].saveOutcome = "ok" /\ chunks # {}
----------------------------------------------------------------------------
\* the batch (1-based) createBatches puts chunk k in
BatchIndex(k, batchSize) == (k + batchSize - 1) \div batchSize

\* C11: within one embedChunks call a chunk of batch N is first sent to the provider
\* only when every chunk of batch N-1 has been embedded; once a chunk has exhausted
\* its retries no chunk of a later batch is ever sent and embedChunks has thrown,
\* returning no list of chunks.
C11_BatchOrder ==
    \A t \in Procs :
        LET p == proc[t]
            bs == config.embedding.batchSize
            n == Len(p.emb)
        IN  /\ \A k \in 1..n : \A j \in 1..n :
                   (p.emb[k].calls > 0 /\ BatchIndex(j, bs) < BatchIndex(k, bs))
                       => p.emb[j].st = "done"
            /\ \A k \in 1..n : p.emb[k].st = "exhausted" =>
                   /\ \A j \in 1..n :
                          BatchIndex(j, bs) > BatchIndex(k, bs) => p.emb[j].calls = 0
                   /\ p.embOutcome = "error"
                   /\ p.pc = "done"
                   /\ p.batch = <<>>

\* three batches: the first embedded, a chunk of the second out of retries after a
\* retry, the third never sent
C11_Witness ==
    \E t \in Procs :
        /\ Len(proc[t].emb) = 3
        /\ config.embedding.batchSize = 1
        /\ proc[t].emb[1].st = "done"
        /\ proc[t].emb[2].st = "exhausted"
        /\ proc[t].emb[2].pauses >= 1
        /\ proc[t].emb[3].calls = 0
        /\ proc[t].pc = "done"

----------------------------------------------------------------------------
\* the number of times x occurs in the sequence s
Count(s, x) == Cardinality({i \in 1..Len(s) : s[i] = x})
PathsOf(ps) == [i \in 1..Len(ps) |-> ps[i].path]
\* the processFile runs of the processFiles call that returned: its input list
ReturnedRuns == SelectSeq(proc, LAMBDA p : p.call = 1)

\* C12: processFiles returns normally for every list of paths and in its result
\* every input path occurs exactly once, in succeeded or in failed and never in
\* both; processedFiles is the length of succeeded and totalChunks the sum of the
\* chunk counts of the succeeded files.
C12_EveryPathOnce ==
    pfResult # <<>> =>
        LET r == pfResult[1].result
            input == PathsOf(ReturnedRuns)
        IN  /\ \A i \in 1..Len(input) :
                   Count(r.succeeded, input[i]) + Count(PathsOf(r.failed), input[i]) = 1
            /\ r.processedFiles = Len(r.succeeded)
            /\ r.totalChunks =
                   SumSeq([i \in 1..Len(ReturnedRuns) |->
                              IF ReturnedRuns[i].result.ok
                              THEN Len(ReturnedRuns[i].chunks) ELSE 0])

\* C12 as amended: every processFile run ends with its file recorded, so the call
\* returns; every entry of the input list yields exactly one entry of the result,
\* in succeeded or in failed, in input order (a path given once occurs once and
\* in one of the two only; a path given k times occurs k times in all);
\* processedFiles is the length of succeeded and totalChunks the sum of the chunk
\* counts of the succeeded runs.
C12_EveryEntryOnce ==
    /\ \A t \in Procs :
           proc[t].pc = "done" =>
               \/ proc[t].result.ok /\ proc[t].result.error = ""
               \/ ~proc[t].result.ok /\ proc[t].result.error # "pending"
    /\ pfResult # <<>> =>
        LET r == pfResult[1].result
            input == PathsOf(ReturnedRuns)
        IN  /\ r.succeeded = PathsOf(SelectSeq(ReturnedRuns, LAMBDA p : p.result.ok))
            /\ PathsOf(r.failed) =
                   PathsOf(SelectSeq(ReturnedRuns, LAMBDA p : ~p.result.ok))
            /\ \A x \in Paths :
                   /\ Count(r.succeeded, x) + Count(PathsOf(r.failed), x)
                          = Count(input, x)
                   /\ Count(input, x) = 1 =>
                          ~(Count(r.succeeded, x) = 1 /\ Count(PathsOf(r.failed), x) = 1)
            /\ r.processedFiles = Len(r.succeeded)
            /\ r.totalChunks =
                   SumSeq([i \in 1..Len(ReturnedRuns) |->
                              IF ReturnedRuns[i].result.ok
                              THEN Len(ReturnedRuns[i].chunks) ELSE 0])

\* processFiles returned for a list that names one file twice: one run of it
\* succeeded, the other failed
C12_Witness ==
    /\ pfResult # <<>>
    /\ Len(ReturnedRuns) = 2
    /\ ReturnedRuns[1].path = ReturnedRuns[2].path
    /\ pfResult[1].result.processedFiles = 1
    /\ pfResult[1].result.totalChunks >= 1
    /\ Len(pfResult[1].result.failed) = 1

----------------------------------------------------------------------------
\* the options object the caller of evalCall gave
GivenOptions ==
    IF evalCall.fn = "FileProcessor" THEN evalCall.args
    ELSE IF evalCall.args = Undefined THEN <<>> ELSE evalCall.args[1]
\* the caller gave no value for field f of the embedding options
EmbeddingFieldOmitted(f) ==
    \/ "embedding" \notin DOMAIN GivenOptions
    \/ f \notin DOMAIN GivenOptions.embedding[1]

\* C13: every option the caller leaves out takes its default, through the tool and
\* through FileProcessor: maxFileSize omitted rejects a file above 10MB, maxTokens
\* omitted gives the budget 1000, overlap omitted the overlap 200, omitted embedding
\* fields are batchSize 100, maxRetries 3, retryDelay 1000.
C13_OmittedTakeDefault ==
    evalCall.returned =>
        LET cfg == evalCall.result.config
            emb == evalCall.result.embedding
        IN  /\ "maxFileSize" \notin DOMAIN GivenOptions
                   => SizeRejected(cfg, 10 * 1024 * 1024 + 1)
            /\ "maxTokens" \notin DOMAIN GivenOptions => ChunkBudget(cfg) = 1000
            /\ "overlap" \notin DOMAIN GivenOptions => LineOverlap(cfg) = 200
            /\ EmbeddingFieldOmitted("batchSize") => emb.batchSize = <<100>>
            /\ EmbeddingFieldOmitted("maxRetries") => emb.maxRetries = <<3>>
            /\ EmbeddingFieldOmitted("retryDelay") => emb.retryDelay = <<1000>>

----------------------------------------------------------------------------
\* the file at path is larger than maxFileSize
TooLarge(path) == Len(FileText(path)) > config.maxFileSize
\* the failure processFile records for a file it rejects
Rejection(path) ==
    [ok |-> FALSE, totalChunks |-> 0,
     error |-> IF TooLarge(path)
               THEN <<"File size exceeds limit", Len(FileText(path)), config.maxFileSize>>
               ELSE "File is empty"]

\* C14: a file larger than maxFileSize, or empty or all whitespace, is recorded as
\* one failed entry with the ProcessorError message and reaches no chunker, no
\* provider call and no store call; a file of exactly maxFileSize bytes is not
\* rejected for its size.
C14_RejectedBeforeAnyCall ==
    /\ \A t \in Procs :
           LET p == proc[t]
           IN  /\ (p.path \in ExistingPaths
                       /\ (TooLarge(p.path) \/ TrimIsEmpty(FileText(p.path)))) =>
                      /\ p.pc = "done"
                      /\ p.result = Rejection(p.path)
                      /\ p.chunks = <<>>
                      /\ p.emb = <<>>
                      /\ p.embOutcome = "none"
                      /\ ~SaveCalled(p)
               /\ (p.path \in ExistingPaths
                       /\ Len(FileText(p.path)) = config.maxFileSize
                       /\ ~TrimIsEmpty(FileText(p.path))) =>
                      /\ p.chunks # <<>>
                      /\ p.embOutcome # "none"
    /\ pfResult # <<>> =>
           \A t \in Procs :
               (proc[t].path \in ExistingPaths
                   /\ (TooLarge(proc[t].path) \/ TrimIsEmpty(FileText(proc[t].path)))) =>
                  /\ Count(PathsOf(pfResult[1].result.failed), proc[t].path) = 1
                  /\ Count(pfResult[1].result.succeeded, proc[t].path) = 0

\* one processFiles call over a file of exactly maxFileSize bytes, which was
\* stored, a larger one and an empty one, both rejected
C14_Witness ==
    /\ pfResult # <<>>
    /\ PathsOf(proc) = <<"a.md", "big.md", "empty.txt">>
    /\ Len(FileText("a.md")) = config.maxFileSize
    /\ pfResult[1].result.succeeded = <<"a.md">>
    /\ PathsOf(pfResult[1].result.failed) = <<"big.md", "empty.txt">>

----------------------------------------------------------------------------
\* C15: processFile on a path that does not exist records a failure for the path
\* whose message describes the cause, not the generic 'Unknown error occurred'.
C15_MissingFileDescribed ==
    \A t \in Procs :
        proc[t].path \notin ExistingPaths =>
            /\ proc[t].pc = "done"
            /\ ~proc[t].result.ok
            /\ proc[t].result.error # "Unknown error occurred"

----------------------------------------------------------------------------
CodeExtensions == {".ts", ".tsx", ".js", ".jsx"}

\* C16: every file whose extension is not a code extension (.md, .txt, .json,
\* .yaml, .yml or unrecognized) is chunked with the paragraph-based chunker.
C16_ParagraphForNonCode ==
    \A t \in Procs :
        LET p == proc[t]
        IN  (/\ p.path \in ExistingPaths
             /\ extname(p.path) \notin CodeExtensions
             /\ ~TooLarge(p.path)
             /\ ~TrimIsEmpty(FileText(p.path))) =>
                p.chunks = ParagraphChunker_chunk(FileText(p.path), p.path,
                                                  detectFileType(p.path), config,
                                                  p.startTime)

----------------------------------------------------------------------------
\* the direct chunker call: its configuration, the lines of its text, its chunks
ArgMaxTokens == evalCall.args.config.maxTokens
ArgOverlap == evalCall.args.config.overlap
ArgLines == SplitLines(evalCall.args.text)
LineChunked == evalCall.fn = "LineChunker.chunk" /\ evalCall.returned
ParagraphChunked == evalCall.fn = "ParagraphChunker.chunk" /\ evalCall.returned

\* C17: every chunk of the line or paragraph chunker has a token count of at most
\* maxTokens, for every text and overlap, unless it is one single line or
\* paragraph whose own estimate exceeds maxTokens.
C17_ChunksWithinBudget ==
    /\ LineChunked =>
           \A k \in 1..Len(evalCall.result) :
               LET c == evalCall.result[k]
               IN  \/ c.metadata.tokenCount <= ArgMaxTokens
                   \/ /\ Len(SplitLines(c.content)) = 1
                      /\ estimateTokenCount(c.content) > ArgMaxTokens
    /\ ParagraphChunked =>
           \A k \in 1..Len(evalCall.result) :
               LET c == evalCall.result[k]
               IN  \/ c.metadata.tokenCount <= ArgMaxTokens
                   \/ /\ Len(SplitParagraphs(c.content)) = 1
                      /\ estimateTokenCount(c.content) > ArgMaxTokens

----------------------------------------------------------------------------
\* the last m elements of the sequence q
LastN(q, m) == SubSeq(q, Len(q) - m + 1, Len(q))

\* C18: after LineChunker flushes a chunk of n lines the next chunk starts with
\* exactly the last min(overlap, n) lines of it, followed by the lines of the
\* text after the flushed chunk and by no other line of the flushed chunk; with
\* overlap = 0 the next chunk has no line of the flushed chunk.
C18_OverlapLines ==
    LineChunked =>
        \A k \in 1..(Len(evalCall.result) - 1) :
            LET flushed == evalCall.result[k]
                next == evalCall.result[k + 1]
                flushedLines == SplitLines(flushed.content)
                m == Min(ArgOverlap, Len(flushedLines))
            IN  SplitLines(next.content) =
                    LastN(flushedLines, m)
                        \o SubSeq(ArgLines, flushed.metadata.endPosition + 2,
                                  next.metadata.endPosition + 1)

----------------------------------------------------------------------------
\* LineChunker's loop variables before it looks at line i (0-based) of the text
LineStateBefore(i) ==
    LineLoop(SubSeq(ArgLines, 1, i), 0,
             [chunks |-> <<>>, currentChunk |-> <<>>, currentTokens |-> 0,
              startLine |-> 0],
             ArgMaxTokens, ArgOverlap,
             [filePath |-> "f.json", fileType |-> "json", now |-> clock])
\* the estimates of the first j lines of the text, summed
PrefixTokens(j) == SumSeq([i \in 1..j |-> estimateTokenCount(ArgLines[i])])
\* the number of lines that fit the first chunk: at least one, and as many as
\* stay within maxTokens
FirstChunkLines ==
    CHOOSE j \in 1..Len(ArgLines) :
        /\ j = 1 \/ PrefixTokens(j) <= ArgMaxTokens
        /\ j = Len(ArgLines) \/ PrefixTokens(j + 1) > ArgMaxTokens

\* C19: LineChunker closes the current chunk before line i exactly when the
\* accumulator is non-empty and runningTokens + estimate(line i) > maxTokens; a
\* line that brings the sum to exactly maxTokens is added and nothing is flushed.
\* So the first chunk is the longest run of first lines within maxTokens: with
\* maxTokens = 10 and lines of 4 tokens, the first two lines.
C19_FlushStrictlyAbove ==
    LineChunked =>
        /\ \A i \in 0..(Len(ArgLines) - 1) :
               LET before == LineStateBefore(i)
                   after == LineStateBefore(i + 1)
                   line == ArgLines[i + 1]
                   exceeds == /\ Len(before.currentChunk) > 0
                              /\ before.currentTokens + estimateTokenCount(line)
                                     > ArgMaxTokens
               IN  /\ exceeds <=> Len(after.chunks) = Len(before.chunks) + 1
                   /\ ~exceeds =>
                          /\ after.chunks = before.chunks
                          /\ after.currentChunk = Append(before.currentChunk, line)
                   /\ exceeds =>
                          after.chunks[Len(after.chunks)].content
                              = Join(before.currentChunk, <<NL>>)
        /\ evalCall.result[1].content = Join(SubSeq(ArgLines, 1, FirstChunkLines), <<NL>>)
        /\ evalCall.result[1].metadata.startPosition = 0
        /\ evalCall.result[1].metadata.endPosition = FirstChunkLines - 1
        /\ (ArgMaxTokens = 10 /\ Len(ArgLines) >= 3
               /\ \A i \in 1..Len(ArgLines) : estimateTokenCount(ArgLines[i]) = 4)
              => evalCall.result[1].content = Join(SubSeq(ArgLines, 1, 2), <<NL>>)

\* maxTokens = 10 and three lines of 4 tokens: the first chunk is the first two
C19_Witness ==
    /\ LineChunked
    /\ ArgMaxTokens = 10
    /\ ArgLines = <<<<"a", "a", "a", "a">>, <<"a", "a", "a", "a">>, <<"a", "a", "a", "a">>>>
    /\ Len(evalCall.result) = 2
    /\ evalCall.result[1].metadata.endPosition = 1
    /\ evalCall.result[1].metadata.tokenCount = 8

\* a line that brings the running count to exactly maxTokens joins the chunk
C19_WitnessMeet ==
    /\ LineChunked
    /\ ArgMaxTokens = 2
    /\ ArgLines = <<<<"a">>, <<"a">>, <<"a">>>>
    /\ evalCall.result[1].content = <<"a", NL, "a">>

----------------------------------------------------------------------------
\* C20: a line whose own estimate exceeds maxTokens is emitted by LineChunker as a
\* chunk of that line alone (startPosition = endPosition = its index), wherever
\* it occurs in the text and for every overlap.
C20_OversizedLineAlone ==
    LineChunked =>
        \A i \in 1..Len(ArgLines) :
            estimateTokenCount(ArgLines[i]) > ArgMaxTokens =>
                \E k \in 1..Len(evalCall.result) :
                    /\ evalCall.result[k].content = ArgLines[i]
                    /\ evalCall.result[k].metadata.startPosition = i - 1
                    /\ evalCall.result[k].metadata.endPosition = i - 1

----------------------------------------------------------------------------
\* the direct code chunker call: its program and its chunks
ArgProgram == evalCall.args.program
CodeChunked == evalCall.fn = "CodeChunker.chunk" /\ evalCall.returned
ArgMinNodeSize ==
    IF evalCall.args.config.minNodeSize = 0 THEN 1 ELSE evalCall.args.config.minNodeSize

\* C21: a function, class, interface or type-alias declaration written inside a
\* top-level export statement that has at least minNodeSize lines yields its own
\* declaration chunk in addition to the export chunk; one import followed by one
\* exported function, with minNodeSize 1 and includeImports, gives exactly 3
\* chunks.
C21_ExportedDeclarationChunk ==
    CodeChunked =>
        LET ast == parse(ArgProgram)
            result == evalCall.result
        IN  /\ \A k \in 1..Len(ast.body) :
                  LET node == ast.body[k]
                  IN  ( /\ node.type = "ExportNamedDeclaration"
                        /\ node.declaration \in DeclarationTypes
                        /\ node.loc.end - node.loc.start + 1 >= ArgMinNodeSize )
                      => /\ \E c \in 1..Len(result) :
                              /\ result[c].metadata.additionalMetadata.nodeType
                                     = node.declaration
                              /\ result[c].metadata.startPosition = node.loc.start
                         /\ \E c \in 1..Len(result) :
                              /\ result[c].metadata.additionalMetadata.nodeType = "export"
                              /\ result[c].metadata.startPosition = node.loc.start
            /\ ( /\ Len(ArgProgram) = 2
                 /\ ArgProgram[1].kind = "import"
                 /\ ArgProgram[2].kind = "exportFunction"
                 /\ ArgMinNodeSize = 1
                 /\ evalCall.args.config.includeImports )
               => Len(result) = 3

----------------------------------------------------------------------------
\* item j starts the run of comments that ends directly above item k: only
\* comments from j to k - 1 and no blank line from j to k
Adjacent(program, j, k) ==
    /\ j < k
    /\ \A m \in j..(k - 1) :
          program[m].kind = "comment" /\ ~program[m + 1].blankBefore
CommentOrdinal(program, j) ==
    Cardinality({m \in 1..j : program[m].kind = "comment"})
BodyIndex(program, k) ==
    Cardinality({m \in 1..k : program[m].kind # "comment"})

\* the values of the contiguous comment block immediately above item k
LeadingBlock(program, k) ==
    LET starts == {j \in 1..(k - 1) : Adjacent(program, j, k)}
        first == CHOOSE j \in starts : \A m \in starts : j <= m
    IN  IF starts = {} THEN <<>>
        ELSE [m \in 1..(k - first) |-> CommentValue(CommentOrdinal(program, first + m - 1))]

\* C22: with includeComments, the comment text prepended to a declaration chunk is
\* exactly the contiguous block of comments immediately above the declaration: a
\* comment separated from it by a blank line or by other code is never
\* prepended, and every comment of an adjacent multi-comment block is.
C22_LeadingCommentBlock ==
    (CodeChunked /\ evalCall.args.config.includeComments) =>
        LET ast == parse(ArgProgram)
            result == evalCall.result
        IN  \A k \in 1..Len(ArgProgram) :
                (ArgProgram[k].kind = "function" /\ ArgProgram[k].lines >= ArgMinNodeSize) =>
                    LET node == ast.body[BodyIndex(ArgProgram, k)]
                        nodeText == Slice(ast.text, node.range[1], node.range[2])
                        block == LeadingBlock(ArgProgram, k)
                        expected ==
                            IF block = <<>> THEN nodeText
                            ELSE <<"/", "*">> \o Join([m \in 1..Len(block) |-> block[m]],
                                                       <<NL>>)
                                     \o <<"*", "/", NL>> \o nodeText
                    IN  \E c \in 1..Len(result) :
                            /\ result[c].metadata.additionalMetadata.nodeType
                                   = "FunctionDeclaration"
                            /\ result[c].metadata.startPosition = node.loc.start
                            /\ result[c].content = expected

----------------------------------------------------------------------------
Searched ==
    /\ evalCall.fn = "VectorStore.search"
    /\ evalCall.returned
    /\ evalCall.result.outcome = "ok"
Dot(a, b) == SumSeq([j \in 1..Len(a) |-> a[j] * b[j]])
\* cosine(a, q) > cosine(b, q), for non-zero vectors of non-negative components
CosineAbove(a, b, q) == Dot(a, q) * Dot(a, q) * Dot(b, b) > Dot(b, q) * Dot(b, q) * Dot(a, a)
CosinePositive(a, q) == Dot(a, q) > 0

\* C23: search(queryVector, limit) returns at most limit entries, each for a stored
\* chunk with an embedding whose cosine similarity to the query is above 0, in
\* non-increasing order of similarity, and leaves out no chunk of positive
\* similarity above that of a returned one; with [1,0], [0,1], [1,1] stored, the
\* query [1,0] and limit 2 it returns the [1,0] chunk and then the [1,1] chunk.
C23_SearchTopCosine ==
    Searched =>
        LET rows == evalCall.result.rows
            q == evalCall.args.queryVector
            vec(id) == StoredVector(id)[1]
            ids == {rows[j].chunk.id : j \in 1..Len(rows)}
        IN  /\ Len(rows) <= evalCall.args.limit
            /\ \A j \in 1..Len(rows) :
                  /\ \E r \in chunks : r.id = rows[j].chunk.id /\ r.embedding # Null
                  /\ CosinePositive(vec(rows[j].chunk.id), q)
            /\ \A j \in 1..(Len(rows) - 1) :
                  ~CosineAbove(vec(rows[j + 1].chunk.id), vec(rows[j].chunk.id), q)
            /\ \A r \in chunks :
                  (r.embedding # Null /\ r.id \notin ids /\ CosinePositive(vec(r.id), q))
                      => \A j \in 1..Len(rows) :
                             ~CosineAbove(vec(r.id), vec(rows[j].chunk.id), q)
            /\ ( /\ {r.id : r \in chunks} = {"e10", "e01", "e11"}
                 /\ q = <<1, 0>>
                 /\ evalCall.args.limit = 2 )
               => [j \in 1..Len(rows) |-> rows[j].chunk.id] = <<"e10", "e11">>

----------------------------------------------------------------------------
Queried ==
    /\ evalCall.fn = "vectorQueryTool"
    /\ evalCall.returned
    /\ evalCall.result.outcome = "ok"

\* C24: the vector-query tool returns exactly the store's search results whose
\* similarity is at least the threshold the caller supplied, for every supplied
\* threshold in [0,1] including 0, and uses 0.5 only when none is supplied.
C24_ThresholdAsSupplied ==
    Queried =>
        LET threshold == IF evalCall.args.threshold = Undefined THEN 5
                         ELSE evalCall.args.threshold[1]
            expected == SelectSeq(evalCall.result.searchResults,
                                  LAMBDA r : r.similarity >= threshold)
        IN  [j \in 1..Len(evalCall.result.results) |->
                evalCall.result.results[j].similarity]
                = [j \in 1..Len(expected) |-> expected[j].similarity]

----------------------------------------------------------------------------
\* C25: initialize is idempotent and every other operation initializes the store
\* itself: an operation runs its own statements only after initialization has
\* succeeded; a call made once the flag is set issues no schema statement; a call
\* whose initialization fails ends with DatabaseError without running a statement
\* of its own and leaves the flag unset, so that the next call issues the schema
\* statements again.
C25_SelfInitializing ==
    /\ \A t \in Procs :
          LET p == proc[t]
          IN  /\ (p.pc \notin {"create1", "create2"} /\ ~p.initFailed) => initialized
              /\ (p.own > 0 \/ p.saveOutcome # "none"
                      \/ p.pc \in {"own", "begin", "commit", "rollback"})
                    => (initialized /\ ~p.initFailed)
              /\ p.sawInitialized => p.schema = 0
              /\ ~p.sawInitialized => p.schema >= 1
              /\ p.initFailed => /\ p.pc = "done"
                                 /\ p.outcome = "DatabaseError"
                                 /\ ~p.initDone
              /\ (p.kind = "initialize" /\ p.pc = "done" /\ ~p.initFailed)
                    => p.outcome = "ok"
    /\ initialized <=> \E t \in Procs : proc[t].initDone

\* a first call's initialization failed, a second call initialized the store, and
\* a third, made afterwards, ran its own statement without a schema statement
C25_Witness ==
    \E a, b, c \in Procs :
        /\ a < b /\ b < c
        /\ proc[a].initFailed /\ proc[a].kind # "initialize"
        /\ proc[b].initDone /\ ~proc[b].sawInitialized
        /\ proc[c].sawInitialized /\ proc[c].own = 1 /\ proc[c].outcome = "ok"

----------------------------------------------------------------------------
\* C26: every chunk emitted by any chunker (line, paragraph, code), for every
\* input text and configuration, has startPosition <= endPosition and
\* tokenCount >= 0.
C26_PositionsOrdered ==
    (LineChunked \/ ParagraphChunked \/ CodeChunked) =>
        \A c \in 1..Len(evalCall.result) :
            /\ evalCall.result[c].metadata.startPosition
                   <= evalCall.result[c].metadata.endPosition
            /\ evalCall.result[c].metadata.tokenCount >= 0

----------------------------------------------------------------------------
\* the paragraphs of the chunks, in the order of the chunks
RECURSIVE ChunkParagraphs(_)
ChunkParagraphs(result) ==
    IF result = <<>> THEN <<>>
    ELSE SplitParagraphs(Head(result).content) \o ChunkParagraphs(Tail(result))

\* C27: the paragraph chunker assigns every paragraph of the input to exactly one
\* chunk, in input order (none lost, none in two chunks), for every maxTokens and
\* every overlap; the overlap has no effect on the chunks.
C27_ParagraphsOnce ==
    ParagraphChunked =>
        /\ ChunkParagraphs(evalCall.result) = SplitParagraphs(evalCall.args.text)
        /\ \A o \in (-1)..MaxOverlap :
              evalCall.result
                  = ParagraphChunker_chunk(evalCall.args.text, "f.md", "markdown",
                        [maxTokens |-> ArgMaxTokens, overlap |-> o], clock)

\* a flush happened between two paragraphs while an overlap was configured
C27_Witness ==
    /\ ParagraphChunked
    /\ ArgOverlap >= 1
    /\ Len(SplitParagraphs(evalCall.args.text)) >= 2
    /\ Len(evalCall.result) >= 2

----------------------------------------------------------------------------
\* C28: for every chunk of the line chunker, for every input, maxTokens and
\* overlap >= 0, the content is the input lines startPosition..endPosition joined
\* by newlines and the tokenCount is the sum of the estimates of those lines.
C28_ContentIsLineRange ==
    (LineChunked /\ ArgOverlap >= 0) =>
        \A c \in 1..Len(evalCall.result) :
            LET chunk == evalCall.result[c]
                range == SubSeq(ArgLines, chunk.metadata.startPosition + 1,
                                chunk.metadata.endPosition + 1)
            IN  /\ chunk.content = Join(range, <<NL>>)
                /\ chunk.metadata.tokenCount
                       = SumSeq([k \in 1..Len(range) |-> estimateTokenCount(range[k])])

----------------------------------------------------------------------------
\* C29: once an embedChunks call has failed (raised EmbeddingError to its caller)
\* it issues no further provider call: no retry for another chunk of the failing
\* batch is pending, waiting for its retryDelay to issue the next call.
C29_NoRetryAfterFailure ==
    \A t \in Procs :
        proc[t].embOutcome = "error" =>
            \A k \in 1..Len(proc[t].emb) : proc[t].emb[k].st # "sleeping"

----------------------------------------------------------------------------
RECURSIVE Flatten(_)
Flatten(batches) ==
    IF batches = <<>> THEN <<>> ELSE Head(batches) \o Flatten(Tail(batches))

\* C30: embedChunks terminates for every finite chunk list and every numeric
\* batchSize the tool's schema accepts, 0 and negative ones included: every
\* iteration of createBatches' loop moves i forward, so the loop ends within one
\* iteration per chunk. For batchSize >= 1 the batches partition the input in
\* order, every batch but the last has batchSize chunks and none is empty.
C30_TerminatesAndPartitions ==
    evalCall.fn = "createBatches" =>
        LET items == evalCall.args.items
            batchSize == evalCall.args.batchSize
            batches == evalCall.result.batches
        IN  /\ Len(batches) > 0 => evalCall.result.i > evalCall.result.prev
            /\ Len(batches) <= Len(items)
            /\ (evalCall.returned /\ batchSize >= 1) =>
                  /\ Flatten(batches) = items
                  /\ \A b \in 1..Len(batches) : Len(batches[b]) >= 1
                  /\ \A b \in 1..(Len(batches) - 1) : Len(batches[b]) = batchSize
                  /\ Len(batches) = NumBatches(Len(items), batchSize)
                  /\ \A b \in 1..Len(batches) :
                        {batches[b][k] : k \in 1..Len(batches[b])}
                            = BatchOf(Len(items), batchSize, b)

====
